---- MODULE Spec2Model ----
(***************************************************************************)
(* Weather-and-forecast normalisation of the farmer dashboard.             *)
(*                                                                         *)
(* The module models fetchWeatherAndForecastTool of                        *)
(* src/ai/flows/get-weather-flow.ts (the "two-call" revision: one request  *)
(* for the current conditions, one for the daily forecast) and its two     *)
(* earlier revisions, which issue one combined request: the 7-day one      *)
(* (SpecCombined) and the 5-day one (SpecFiveDay).                         *)
(*                                                                         *)
(* Conventions                                                             *)
(*   - a JavaScript value that may be undefined is a sequence: <<>> is     *)
(*     undefined, <<n>> is the number n;                                   *)
(*   - an upstream number is held in units of 1/Scale (fixed point), the   *)
(*     result of Math.round in whole units, windSpeed in tenths of km/h;   *)
(*   - an instant is a tick, TicksPerDay ticks to the local calendar day;  *)
(*     a formatted 'yyyy-MM-dd' date is the day number of the instant;     *)
(*   - every object carries the place that allocated it in owner:          *)
(*     "module" for a module-level object, "call" for an object built by   *)
(*     the running invocation.                                             *)
(***************************************************************************)
EXTENDS Integers, Sequences, FiniteSets, TLC

VARIABLES
    pc,                     \* position of the invocation
    apiKey,                 \* process.env.TOMORROW_IO_API_KEY as read by the invocation
    now,                    \* the wall clock (a tick)
    httpCalls,              \* upstream requests issued by the invocation
    curResp,                \* what the current-conditions request met
    fcResp,                 \* what the forecast request met
    parsedCurrentWeather,   \* local of the handler
    parsedForecastItems,    \* local of the handler
    result,                 \* what the invocation returned
    fallbackCurrent,        \* the module-level sentinel object
    prev,                   \* the observations and result of the invocation before
    response,               \* what the single request of an earlier revision met
    potentialCurrentInterval, \* the interval chosen for the current record
    mounted,                \* the WeatherWidget is mounted
    currentLocation,        \* state of the dashboard page: <<lat, lon>>
    currentLatitude,        \* state of the widget
    currentLongitude,       \* state of the widget
    closure,                \* what the callback given to setInterval captured
    isLocating,             \* a geolocation request is pending: the props it captured
    inFlight                \* the transitions of fetchWeatherForLocation not yet settled

vars == <<pc, apiKey, now, httpCalls, curResp, fcResp, parsedCurrentWeather,
          parsedForecastItems, result, fallbackCurrent, prev, response,
          potentialCurrentInterval, mounted, currentLocation, currentLatitude,
          currentLongitude, closure, isLocating, inFlight>>

\* the variables of the dashboard page and its weather widget
widget == <<mounted, currentLocation, currentLatitude, currentLongitude, closure,
            isLocating, inFlight>>

\* the variables of the weather tool
tool == <<pc, apiKey, now, httpCalls, curResp, fcResp, parsedCurrentWeather,
          parsedForecastItems, result, fallbackCurrent, prev, response,
          potentialCurrentInterval>>

----------------------------------------------------------------------------
(* Bounds of the model *)

TicksPerDay == 2
Scale == 10
MaxIntervals == 2
MaxWindMs == 10
TodayDay == 3

(* Constants of the program *)

ForecastDays == 7
FallbackPressure == 1000
KmhTenthsPerMs == 36
HttpOkFirst == 200
HttpOkLast == 299

----------------------------------------------------------------------------
(* JavaScript values *)

Undefined == <<>>

Num(n) == <<n>>

\* a ?? b
Coalesce(a, b) == IF a = Undefined THEN b ELSE a

\* Math.round: the nearest integer, a half rounds towards +infinity
MathRound(v) == Num((2 * v[1] + Scale) \div (2 * Scale))

\* a variant: the tenths are cut off instead of rounded
WindKmh_Truncates(v) == Num((v[1] * KmhTenthsPerMs) \div Scale)

\* Math.round(ms * 3.6 * 10) / 10, kept in tenths of km/h
WindKmh(v) == Num((2 * v[1] * KmhTenthsPerMs + Scale) \div (2 * Scale))

\* the literal 0 of the source, as an upstream value
Zero == Num(0)

----------------------------------------------------------------------------
(* date-fns *)

\* startOfDay(new Date()) formatted 'yyyy-MM-dd'
DateOf(t) == t \div TicksPerDay

StartOfDay(t) == DateOf(t) * TicksPerDay

AddDays(t, i) == t + i * TicksPerDay

----------------------------------------------------------------------------
(* weatherCodeToString *)

KnownCodes ==
    {0, 1000, 1001, 1100, 1101, 1102, 2000, 2100, 4000, 4001, 4200, 4201,
     5000, 5001, 5100, 5101, 6000, 6001, 6200, 6201, 7000, 7101, 7102, 8000}

CodeTable(c) ==
    CASE c = 0 -> "Unknown"
      [] c = 1000 -> "Clear"
      [] c = 1001 -> "Cloudy"
      [] c = 1100 -> "Mostly Clear"
      [] c = 1101 -> "Partly Cloudy"
      [] c = 1102 -> "Mostly Cloudy"
      [] c = 2000 -> "Fog"
      [] c = 2100 -> "Light Fog"
      [] c = 4000 -> "Drizzle"
      [] c = 4001 -> "Rain"
      [] c = 4200 -> "Light Rain"
      [] c = 4201 -> "Heavy Rain"
      [] c = 5000 -> "Snow"
      [] c = 5001 -> "Flurries"
      [] c = 5100 -> "Light Snow"
      [] c = 5101 -> "Heavy Snow"
      [] c = 6000 -> "Freezing Drizzle"
      [] c = 6001 -> "Freezing Rain"
      [] c = 6200 -> "Light Freezing Rain"
      [] c = 6201 -> "Heavy Freezing Rain"
      [] c = 7000 -> "Ice Pellets"
      [] c = 7101 -> "Heavy Ice Pellets"
      [] c = 7102 -> "Light Ice Pellets"
      [] c = 8000 -> "Thunderstorm"

\* a variant: an unlisted code is described as the listed code 0
weatherCodeToString_UnlistedAsUnknown(code) ==
    IF code = Undefined THEN "Weather data unavailable"
    ELSE IF code[1] \in KnownCodes THEN CodeTable(code[1])
    ELSE "Unknown"

weatherCodeToString(code) ==
    IF code = Undefined THEN "Weather data unavailable"
    ELSE IF code[1] \in KnownCodes THEN CodeTable(code[1])
    ELSE "Code " \o ToString(code[1])

----------------------------------------------------------------------------
(* Upstream data: values maps, intervals, responses *)

\* a number literal of the source, as an upstream value
Lit(n) == Num(n * Scale)

EmptyValues ==
    [temperature |-> Undefined, humidity |-> Undefined, windSpeed |-> Undefined,
     weatherCode |-> Undefined, precipitationProbability |-> Undefined,
     uvIndex |-> Undefined, pressureSeaLevel |-> Undefined,
     temperatureMax |-> Undefined, temperatureMin |-> Undefined,
     weatherCodeDay |-> Undefined, precipitationProbabilityAvg |-> Undefined]

\* a daily summary of day d: every forecast field present
DailyValues(d) ==
    [EmptyValues EXCEPT !.temperatureMax = Num(Scale * (20 + d) + 4),
                        !.temperatureMin = Num(Scale * (5 + d) + Scale \div 2),
                        !.weatherCodeDay = Num(1000),
                        !.precipitationProbability = Num(Scale * 30 + 1)]

\* another record of day d: no minimum, no day code, an unlisted generic code
AltValues(d) ==
    [EmptyValues EXCEPT !.temperatureMax = Num(Scale * (30 + d) - 4),
                        !.weatherCode = Num(9999)]

\* an instantaneous sample
CurrentValues ==
    [EmptyValues EXCEPT !.temperature = Num(Scale * 21 + Scale \div 2),
                        !.humidity = Num(Scale * 64 + 2),
                        !.windSpeed = Num(Scale * 10),
                        !.weatherCode = Num(4001),
                        !.precipitationProbability = Num(Scale * 15),
                        !.uvIndex = Num(Scale * 5 + 6),
                        !.pressureSeaLevel = Num(Scale * 1013 + 2)]

\* an interval of the response: null, an object without a values map, or an
\* object with one; startTime is Undefined when it does not parse as a date
Interval(kind, startTime, values) ==
    [kind |-> kind, startTime |-> startTime, values |-> values]

Days == (TodayDay - 1)..(TodayDay + ForecastDays)

DailyInterval(d) == Interval("values", Num(d * TicksPerDay), DailyValues(d))

AltInterval(d) ==
    Interval("values", Num(d * TicksPerDay + TicksPerDay - 1), AltValues(d))

NullInterval == Interval("null", Undefined, EmptyValues)

NoValuesInterval == Interval("novalues", Num(TodayDay * TicksPerDay), EmptyValues)

EmptyValuesInterval == Interval("values", Num(TodayDay * TicksPerDay), EmptyValues)

InvalidTimeInterval == Interval("values", Undefined, DailyValues(TodayDay))

IntervalSamples ==
    {DailyInterval(d) : d \in Days} \cup {AltInterval(d) : d \in Days}
    \cup {NullInterval, NoValuesInterval, EmptyValuesInterval, InvalidTimeInterval}

\* every list of at most MaxIntervals sample intervals, in every order
ShortLists == UNION {[1..n -> IntervalSamples] : n \in 0..MaxIntervals}

RECURSIVE Ascending(_)
Ascending(S) ==
    IF S = {} THEN <<>>
    ELSE LET m == CHOOSE x \in S : \A y \in S : x <= y
         IN  <<m>> \o Ascending(S \ {m})

Reverse(s) == [k \in 1..Len(s) |-> s[Len(s) + 1 - k]]

Orders == {"ascending", "descending", "lastFirst"}

Arrange(S, order) ==
    LET a == Ascending(S)
    IN  CASE order = "ascending" -> a
          [] order = "descending" -> Reverse(a)
          [] order = "lastFirst" ->
                IF a = <<>> THEN a ELSE <<a[Len(a)]>> \o SubSeq(a, 1, Len(a) - 1)

\* one daily summary for each day of a set of days around the window, the days
\* in ascending or descending order or with the last day first
RunLists ==
    {[k \in 1..Cardinality(S) |-> DailyInterval(Arrange(S, o)[k])] :
        S \in SUBSET Days, o \in Orders}

\* what a request can meet: fetch rejects ("throw"), or a response with a
\* status and a body; the body is not JSON ("text"), JSON without
\* data.timelines[0].intervals ("noIntervals"), or JSON with an intervals array
Response(kind, status, body, intervals) ==
    [kind |-> kind, status |-> status, body |-> body, intervals |-> intervals]

ErrorStatuses == {404, 500}

FailedResponses ==
    {Response("throw", 0, "text", <<>>)}
    \cup {Response("http", s, "text", <<>>) : s \in ErrorStatuses}
    \cup {Response("http", HttpOkFirst, b, <<>>) : b \in {"text", "noIntervals"}}

OkResponses(lists) == {Response("http", HttpOkFirst, "intervals", l) : l \in lists}

CurrentLists ==
    {<<>>, <<NullInterval>>, <<NoValuesInterval>>, <<EmptyValuesInterval>>,
     <<Interval("values", Num(TodayDay * TicksPerDay), CurrentValues)>>}

CurrentResponses == FailedResponses \cup OkResponses(CurrentLists)

ForecastResponses == FailedResponses \cup OkResponses(ShortLists \cup RunLists)

\* the clock reading of the model: the last tick of today
Nows == {TodayDay * TicksPerDay + TicksPerDay - 1}

KeyStates == {"unset", "empty", "set"}

----------------------------------------------------------------------------
(* The records of the result *)

\* the module-level object literal fallbackCurrent
FallbackCurrentLiteral ==
    [owner |-> "module", temperature |-> Num(0), humidity |-> Num(0),
     windSpeed |-> Num(0), weatherCode |-> Num(0),
     precipitationProbability |-> Num(0), uvIndex |-> Num(0),
     pressure |-> Num(FallbackPressure), weatherDescription |-> "Unavailable"]

\* a variant: the local starts as an empty object
SpreadFallback_Blank(fc) ==
    [owner |-> "call", temperature |-> Undefined, humidity |-> Undefined,
     windSpeed |-> Undefined, weatherCode |-> Undefined,
     precipitationProbability |-> Undefined, uvIndex |-> Undefined,
     pressure |-> Undefined, weatherDescription |-> ""]

\* parsed holds the fields the module-level object was declared with
IsFallbackShaped(parsed) ==
    [parsed EXCEPT !.owner = "module"] = FallbackCurrentLiteral

\* { ...fallbackCurrent }: a new object with the fields of the module's
SpreadFallback(fc) == [fc EXCEPT !.owner = "call"]

\* return { current: fallbackCurrent, ... }: the module's object itself
MissingKeyCurrent(fc) == fc

\* a variant: an absent humidity or uvIndex is passed on as it is
MapCurrent_NoDefaults(cv) ==
    [owner |-> "call",
     temperature |-> MathRound(Coalesce(cv.temperature, Lit(0))),
     humidity |-> IF cv.humidity = Undefined THEN Undefined ELSE MathRound(cv.humidity),
     windSpeed |-> WindKmh(Coalesce(cv.windSpeed, Lit(0))),
     weatherCode |-> Coalesce(cv.weatherCode, Zero),
     precipitationProbability |-> MathRound(Coalesce(cv.precipitationProbability, Lit(0))),
     uvIndex |-> IF cv.uvIndex = Undefined THEN Undefined ELSE MathRound(cv.uvIndex),
     pressure |-> MathRound(Coalesce(cv.pressureSeaLevel, Lit(FallbackPressure))),
     weatherDescription |-> weatherCodeToString(cv.weatherCode)]

\* the object literal built from the values of the first current interval
MapCurrent(cv) ==
    [owner |-> "call",
     temperature |-> MathRound(Coalesce(cv.temperature, Lit(0))),
     humidity |-> MathRound(Coalesce(cv.humidity, Lit(0))),
     windSpeed |-> WindKmh(Coalesce(cv.windSpeed, Lit(0))),
     weatherCode |-> Coalesce(cv.weatherCode, Zero),
     precipitationProbability |-> MathRound(Coalesce(cv.precipitationProbability, Lit(0))),
     uvIndex |-> MathRound(Coalesce(cv.uvIndex, Lit(0))),
     pressure |-> MathRound(Coalesce(cv.pressureSeaLevel, Lit(FallbackPressure))),
     weatherDescription |-> weatherCodeToString(cv.weatherCode)]

\* the placeholder of a day without data
SentinelDay(date) ==
    [owner |-> "call", date |-> date, tempMax |-> Num(0), tempMin |-> Num(0),
     weatherCode |-> Num(0), weatherDescription |-> "N/A",
     precipitationProbability |-> Num(0)]

\* a variant: || in place of ??, and the description of the generic code
MapDaily_FalsyCode(interval) ==
    LET day == interval.values.weatherCodeDay
        generic == interval.values.weatherCode
        code == IF day # Undefined /\ day # Num(0) THEN day
                ELSE IF generic # Undefined /\ generic # Num(0) THEN generic
                ELSE Zero
    IN  [owner |-> "call",
         date |-> DateOf(interval.startTime[1]),
         tempMax |-> MathRound(Coalesce(interval.values.temperatureMax, Lit(0))),
         tempMin |-> MathRound(Coalesce(interval.values.temperatureMin, Lit(0))),
         weatherCode |-> code,
         weatherDescription |-> weatherCodeToString(Coalesce(day, generic)),
         precipitationProbability |->
            MathRound(Coalesce(interval.values.precipitationProbability, Lit(0)))]

\* a variant: the description is that of the generic code alone
MapDaily_DescribesGenericCode(interval) ==
    [owner |-> "call",
     date |-> DateOf(interval.startTime[1]),
     tempMax |-> MathRound(Coalesce(interval.values.temperatureMax, Lit(0))),
     tempMin |-> MathRound(Coalesce(interval.values.temperatureMin, Lit(0))),
     weatherCode |->
        Coalesce(Coalesce(interval.values.weatherCodeDay, interval.values.weatherCode), Zero),
     weatherDescription |-> weatherCodeToString(interval.values.weatherCode),
     precipitationProbability |->
        MathRound(Coalesce(interval.values.precipitationProbability, Lit(0)))]

\* the forecast item pushed for an interval with a values map
MapDaily(interval) ==
    [owner |-> "call",
     date |-> DateOf(interval.startTime[1]),
     tempMax |-> MathRound(Coalesce(interval.values.temperatureMax, Lit(0))),
     tempMin |-> MathRound(Coalesce(interval.values.temperatureMin, Lit(0))),
     weatherCode |->
        Coalesce(Coalesce(interval.values.weatherCodeDay, interval.values.weatherCode), Zero),
     weatherDescription |->
        weatherCodeToString(Coalesce(interval.values.weatherCodeDay, interval.values.weatherCode)),
     precipitationProbability |->
        MathRound(Coalesce(interval.values.precipitationProbability, Lit(0)))]

\* a variant: the seven days start tomorrow
createFallbackForecast_FromTomorrow(t) ==
    [i \in 1..ForecastDays |-> SentinelDay(DateOf(AddDays(StartOfDay(t), i)))]

\* createFallbackForecast(), the clock reading t
createFallbackForecast(t) ==
    [i \in 1..ForecastDays |-> SentinelDay(DateOf(AddDays(StartOfDay(t), i - 1)))]

----------------------------------------------------------------------------
(* The current-conditions request *)

\* response.ok
ResponseOk(status) == HttpOkFirst <= status /\ status <= HttpOkLast

\* a variant: an empty intervals array stands for a sample without fields
FirstValues_DefaultsToEmpty(resp) ==
    IF resp.body = "intervals" /\ Len(resp.intervals) > 0
       /\ resp.intervals[1].kind = "values"
    THEN <<resp.intervals[1].values>>
    ELSE IF resp.body = "intervals" /\ resp.intervals = <<>> THEN <<EmptyValues>>
    ELSE Undefined

\* currentData.data?.timelines?.[0]?.intervals?.[0]?.values
FirstValues(resp) ==
    IF resp.body = "intervals" /\ Len(resp.intervals) > 0
       /\ resp.intervals[1].kind = "values"
    THEN <<resp.intervals[1].values>>
    ELSE Undefined

\* the body of the first try: threw says whether it ended in an exception,
\* current is parsedCurrentWeather when it ended
CurrentBlock(resp, parsed) ==
    IF resp.kind = "throw" THEN [threw |-> TRUE, current |-> parsed]
    ELSE IF ~ResponseOk(resp.status) THEN [threw |-> FALSE, current |-> parsed]
    ELSE IF resp.body = "text" THEN [threw |-> TRUE, current |-> parsed]
    ELSE IF FirstValues(resp) # Undefined
         THEN [threw |-> FALSE, current |-> MapCurrent(FirstValues(resp)[1])]
         ELSE [threw |-> FALSE, current |-> parsed]

\* a variant: the last mapped record is kept in the module-level object
fallbackCurrentAfter_CachesLast(fc, parsed) ==
    IF IsFallbackShaped(parsed) THEN fc ELSE [parsed EXCEPT !.owner = "module"]

\* the module-level object after the first try: the handler assigns its
\* local parsedCurrentWeather and never writes to fallbackCurrent
fallbackCurrentAfter(fc, parsed) == fc

\* a variant: the catch block throws the error again
CurrentTryCatch_Rethrows(resp, parsed) == CurrentBlock(resp, parsed)

\* try { ... } catch (error) { console.error(...) }
CurrentTryCatch(resp, parsed) ==
    LET r == CurrentBlock(resp, parsed)
    IN  [threw |-> FALSE, current |-> r.current]

----------------------------------------------------------------------------
(* The forecast request *)

\* startOfDay(forecastDate) >= startOfDay(new Date()); false for an invalid date
NotPast(startTime, t) ==
    startTime # Undefined /\ StartOfDay(startTime[1]) >= StartOfDay(t)

\* a variant: only intervals with both temperature extremes are collected
RECURSIVE CollectItems_DailyOnly(_, _, _)
CollectItems_DailyOnly(intervals, items, t) ==
    IF intervals = <<>> THEN [threw |-> FALSE, items |-> items]
    ELSE LET interval == Head(intervals)
         IN  IF interval.kind = "null" THEN [threw |-> TRUE, items |-> items]
             ELSE IF interval.kind = "values" /\ Len(items) < ForecastDays
                     /\ interval.values.temperatureMax # Undefined
                     /\ interval.values.temperatureMin # Undefined
                     /\ NotPast(interval.startTime, t)
                  THEN CollectItems_DailyOnly(Tail(intervals),
                                              Append(items, MapDaily(interval)), t)
                  ELSE CollectItems_DailyOnly(Tail(intervals), items, t)

\* the loop over the intervals: threw when it reads .values of null
RECURSIVE CollectItems(_, _, _)
CollectItems(intervals, items, t) ==
    IF intervals = <<>> THEN [threw |-> FALSE, items |-> items]
    ELSE LET interval == Head(intervals)
         IN  IF interval.kind = "null" THEN [threw |-> TRUE, items |-> items]
             ELSE IF interval.kind = "values" /\ Len(items) < ForecastDays
                     /\ NotPast(interval.startTime, t)
                  THEN CollectItems(Tail(intervals), Append(items, MapDaily(interval)), t)
                  ELSE CollectItems(Tail(intervals), items, t)

\* Array.prototype.sort with the comparator on the dates: stable
RECURSIVE InsertByDate(_, _)
InsertByDate(sorted, x) ==
    IF sorted = <<>> THEN <<x>>
    ELSE IF sorted[Len(sorted)].date <= x.date THEN Append(sorted, x)
    ELSE Append(InsertByDate(SubSeq(sorted, 1, Len(sorted) - 1), x), sorted[Len(sorted)])

RECURSIVE SortByDate(_)
SortByDate(items) ==
    IF Len(items) <= 1 THEN items
    ELSE InsertByDate(SortByDate(SubSeq(items, 1, Len(items) - 1)), items[Len(items)])

\* tempForecastItems.find(f => f.date === targetDate)
FindDay(items, date) ==
    LET at == {k \in 1..Len(items) : items[k].date = date}
    IN  IF at = {} THEN Undefined
        ELSE <<items[CHOOSE k \in at : \A j \in at : k <= j]>>

\* a variant: the sorted items as they are, no day looked up or padded
AlignForecast_NoPadding(items, t) == items

\* a variant: the i-th day is the i-th item, whatever its date
AlignForecast_ByIndex(items, t) ==
    [i \in 1..ForecastDays |->
        IF i <= Len(items) THEN items[i]
        ELSE SentinelDay(DateOf(AddDays(StartOfDay(t), i - 1)))]

\* the loop that pads and truncates to the seven days from today
AlignForecast(items, t) ==
    [i \in 1..ForecastDays |->
        LET targetDate == DateOf(AddDays(StartOfDay(t), i - 1))
            foundDay == FindDay(items, targetDate)
        IN  IF foundDay # Undefined THEN foundDay[1] ELSE SentinelDay(targetDate)]

\* the body of the second try: items is parsedForecastItems when it ended
ForecastBlock(resp, parsed, t) ==
    IF resp.kind = "throw" THEN [threw |-> TRUE, items |-> parsed]
    ELSE IF ~ResponseOk(resp.status) THEN [threw |-> FALSE, items |-> parsed]
    ELSE IF resp.body = "text" THEN [threw |-> TRUE, items |-> parsed]
    ELSE IF resp.body # "intervals" THEN [threw |-> FALSE, items |-> parsed]
    ELSE LET c == CollectItems(resp.intervals, <<>>, t)
         IN  IF c.threw THEN [threw |-> TRUE, items |-> parsed]
             ELSE IF Len(c.items) > 0
                  THEN [threw |-> FALSE, items |-> AlignForecast(SortByDate(c.items), t)]
                  ELSE [threw |-> FALSE, items |-> parsed]

\* a variant: no catch, the exception leaves the handler
ForecastTryCatch_NoCatch(resp, parsed, t) == ForecastBlock(resp, parsed, t)

\* a variant: the items collected before the exception are kept
ForecastTryCatch_KeepsCollected(resp, parsed, t) ==
    LET c == CollectItems(resp.intervals, <<>>, t)
    IN  IF resp.kind = "http" /\ ResponseOk(resp.status) /\ resp.body = "intervals"
           /\ c.threw /\ Len(c.items) > 0
        THEN [threw |-> FALSE, items |-> AlignForecast(SortByDate(c.items), t)]
        ELSE [threw |-> FALSE, items |-> ForecastBlock(resp, parsed, t).items]

\* try { ... } catch (error) { console.error(...) }
ForecastTryCatch(resp, parsed, t) ==
    LET r == ForecastBlock(resp, parsed, t)
    IN  [threw |-> FALSE, items |-> r.items]

\* parsedForecastItems.slice(0, 7)
Slice(items, n) == SubSeq(items, 1, IF Len(items) < n THEN Len(items) ELSE n)

----------------------------------------------------------------------------
(* The invocation *)

\* a variant: the key is never found missing
KeyMissing_Never(key) == FALSE

\* !apiKey: the variable is not set, or is the empty string
KeyMissing(key) == key # "set"

NoResponse == Response("none", 0, "text", <<>>)

\* DEFAULT_LATITUDE, DEFAULT_LONGITUDE of the dashboard page, in whole degrees
DefaultLocation == <<34, -118>>

NoCurrent == [FallbackCurrentLiteral EXCEPT !.owner = "none", !.weatherDescription = ""]

NoResult == [current |-> NoCurrent, forecast |-> <<>>]

NoPrev == [set |-> FALSE, later |-> FALSE, apiKey |-> "unset", curResp |-> NoResponse,
           fcResp |-> NoResponse, result |-> NoResult]

Init ==
    /\ pc = "idle"
    /\ apiKey = "unset"
    /\ now \in Nows
    /\ httpCalls = 0
    /\ curResp = NoResponse
    /\ fcResp = NoResponse
    /\ parsedCurrentWeather = NoCurrent
    /\ parsedForecastItems = <<>>
    /\ result = NoResult
    /\ fallbackCurrent = FallbackCurrentLiteral
    /\ prev = NoPrev
    /\ response = NoResponse
    /\ potentialCurrentInterval = Undefined
    /\ mounted = FALSE
    /\ currentLocation = DefaultLocation
    /\ currentLatitude = DefaultLocation[1]
    /\ currentLongitude = DefaultLocation[2]
    /\ closure = [currentLatitude |-> DefaultLocation[1],
                  currentLongitude |-> DefaultLocation[2]]
    /\ isLocating = Undefined
    /\ inFlight = <<>>

Callable == pc \in {"idle", "returned", "raised"}

Returned == pc = "returned"

\* the tool is called and finds no API key: it returns at once
InvokeWithoutKey(keys) ==
    /\ Callable
    /\ \E key \in keys :
        /\ KeyMissing(key)
        /\ apiKey' = key
    /\ httpCalls' = 0
    /\ curResp' = NoResponse
    /\ fcResp' = NoResponse
    /\ parsedCurrentWeather' = NoCurrent
    /\ parsedForecastItems' = <<>>
    /\ result' = [current |-> MissingKeyCurrent(fallbackCurrent),
                  forecast |-> createFallbackForecast(now)]
    /\ pc' = "returned"
    /\ UNCHANGED <<now, fallbackCurrent>>

\* the tool is called with an API key: it sets its locals to the fallbacks
\* and goes on to the first request
InvokeWithKey(keys) ==
    /\ Callable
    /\ \E key \in keys :
        /\ ~KeyMissing(key)
        /\ apiKey' = key
    /\ httpCalls' = 0
    /\ curResp' = NoResponse
    /\ fcResp' = NoResponse
    /\ parsedCurrentWeather' = SpreadFallback(fallbackCurrent)
    /\ parsedForecastItems' = createFallbackForecast(now)
    /\ result' = NoResult
    /\ pc' = "fetchCurrent"
    /\ UNCHANGED <<now, fallbackCurrent>>

\* a variant: a rejected or non-2xx request is issued a second time
FetchCurrent_Retries(responses) ==
    /\ pc = "fetchCurrent"
    /\ \E resp \in responses :
        /\ curResp' = resp
        /\ \E r \in {CurrentTryCatch(resp, parsedCurrentWeather)} :
            /\ parsedCurrentWeather' = r.current
            /\ fallbackCurrent' = fallbackCurrentAfter(fallbackCurrent, r.current)
            /\ pc' = IF (resp.kind = "throw" \/ ~ResponseOk(resp.status)) /\ httpCalls < 1
                     THEN "fetchCurrent"
                     ELSE "fetchForecast"
    /\ httpCalls' = httpCalls + 1
    /\ UNCHANGED <<apiKey, now, fcResp, parsedForecastItems, result>>

\* 1. Fetch Current Weather: the request, and what the handler does with
\* what it meets
FetchCurrent(responses) ==
    /\ pc = "fetchCurrent"
    /\ \E resp \in responses :
        /\ curResp' = resp
        /\ \E r \in {CurrentTryCatch(resp, parsedCurrentWeather)} :
            /\ parsedCurrentWeather' = r.current
            /\ fallbackCurrent' = fallbackCurrentAfter(fallbackCurrent, r.current)
            /\ pc' = IF r.threw THEN "raised" ELSE "fetchForecast"
    /\ httpCalls' = httpCalls + 1
    /\ UNCHANGED <<apiKey, now, fcResp, parsedForecastItems, result>>

\* 2. Fetch 7-Day Forecast: the request, what the handler does with what it
\* meets, and the return
FetchForecast(responses) ==
    /\ pc = "fetchForecast"
    /\ \E resp \in responses :
        /\ fcResp' = resp
        /\ \E r \in {ForecastTryCatch(resp, parsedForecastItems, now)} :
            /\ parsedForecastItems' = r.items
            /\ pc' = IF r.threw THEN "raised" ELSE "returned"
            /\ result' = IF r.threw THEN NoResult
                         ELSE [current |-> parsedCurrentWeather,
                               forecast |-> Slice(r.items, ForecastDays)]
    /\ httpCalls' = httpCalls + 1
    /\ UNCHANGED <<apiKey, now, curResp, parsedCurrentWeather, fallbackCurrent>>

\* the variables the two-call handler has no part in
others == <<prev, response, potentialCurrentInterval, widget>>

\* the variables the single-request handlers of the earlier revisions leave alone
twoCall == <<curResp, fcResp, parsedCurrentWeather, parsedForecastItems,
             fallbackCurrent, prev, widget>>

Next ==
    \/ InvokeWithoutKey(KeyStates) /\ UNCHANGED others
    \/ InvokeWithKey(KeyStates) /\ UNCHANGED others
    \/ FetchCurrent(CurrentResponses) /\ UNCHANGED others
    \/ FetchForecast(ForecastResponses) /\ UNCHANGED others

Spec == Init /\ [][Next]_vars

\* the forecast responses of the repeated invocations
RepeatForecastResponses ==
    FailedResponses
    \cup OkResponses({<<>>, <<DailyInterval(TodayDay)>>,
                      <<DailyInterval(TodayDay + 1), AltInterval(TodayDay)>>})

\* an observer keeps the observations and the result of one invocation
Remember ==
    /\ Returned
    /\ ~prev.set
    /\ prev' = [set |-> TRUE, later |-> FALSE, apiKey |-> apiKey, curResp |-> curResp,
                fcResp |-> fcResp, result |-> result]
    /\ UNCHANGED <<pc, apiKey, now, httpCalls, curResp, fcResp, parsedCurrentWeather,
                   parsedForecastItems, result, fallbackCurrent, response,
                   potentialCurrentInterval, widget>>

\* the observer notes that an invocation started after the remembered one
NoteInvocation ==
    /\ prev' = [prev EXCEPT !.later = prev.set]
    /\ UNCHANGED <<response, potentialCurrentInterval, widget>>

NextRepeat ==
    \/ InvokeWithoutKey(KeyStates) /\ NoteInvocation
    \/ InvokeWithKey(KeyStates) /\ NoteInvocation
    \/ FetchCurrent(CurrentResponses) /\ UNCHANGED others
    \/ FetchForecast(RepeatForecastResponses) /\ UNCHANGED others
    \/ Remember

\* invocation after invocation in one process, one of them remembered
SpecRepeat == Init /\ [][NextRepeat]_vars

----------------------------------------------------------------------------
(* The field mapper on its own: the two-call handler on responses that hold *)
(* one interval, over the weather codes and the wind speeds.                *)

\* codes the lookup table does not list
UnlistedCodes == {-1, 1, 999, 1002, 8001, 9999}

CodeSamples == {Undefined} \cup {Num(c) : c \in KnownCodes \cup UnlistedCodes}

\* wind speeds from 0 to MaxWindMs metres/second in steps of 1/Scale
WindSamples == {Undefined} \cup {Num(w) : w \in 0..(MaxWindMs * Scale)}

MapperCurrentLists ==
    {<<Interval("values", Num(t), [CurrentValues EXCEPT !.weatherCode = c])>> :
        c \in CodeSamples, t \in Nows}
    \cup {<<Interval("values", Num(t), [CurrentValues EXCEPT !.windSpeed = w])>> :
        w \in WindSamples, t \in Nows}

MapperForecastLists ==
    {<<Interval("values", Num(TodayDay * TicksPerDay),
                [DailyValues(TodayDay) EXCEPT !.weatherCodeDay = c])>> : c \in CodeSamples}
    \cup {<<Interval("values", Num(TodayDay * TicksPerDay),
                     [DailyValues(TodayDay) EXCEPT !.weatherCodeDay = Undefined,
                                                   !.weatherCode = c])>> : c \in CodeSamples}

MapperKeys == {"set"}

NextMapper ==
    \/ InvokeWithKey(MapperKeys) /\ UNCHANGED others
    \/ FetchCurrent(OkResponses(MapperCurrentLists)) /\ UNCHANGED others
    \/ FetchForecast(OkResponses(MapperForecastLists)) /\ UNCHANGED others

SpecMapper == Init /\ [][NextMapper]_vars

----------------------------------------------------------------------------
(* The combined-query revision (src/unnamed/part_003, lines 1-275): one      *)
(* request brings the current sample and the daily summaries in one list of  *)
(* intervals. The time zone of the process is taken to be UTC.               *)

\* an instantaneous sample taken at tick t
SampleValues(t) == [CurrentValues EXCEPT !.temperature = Num(Scale * (10 + t))]

SampleInterval(t) == Interval("values", Num(t), SampleValues(t))

\* a sample without a startTime
UntimedSample == Interval("values", Undefined, CurrentValues)

\* a daily summary that also carries temperature
DailyWithTemperature(d) ==
    Interval("values", Num(d * TicksPerDay),
             [DailyValues(d) EXCEPT !.temperature = Num(Scale * 18)])

\* an interval with temperature and temperatureMax and no temperatureMin
TemperatureAndMax(d) ==
    Interval("values", Num(d * TicksPerDay),
             [AltValues(d) EXCEPT !.temperature = Num(Scale * 17)])

\* the start times of the samples: a day before the clock reading, a tick
\* before it, the reading itself, a tick after it
SampleTimes == UNION {{t - TicksPerDay, t - 1, t, t + 1} : t \in Nows}

Samples == {SampleInterval(t) : t \in SampleTimes} \cup {UntimedSample}

MixedSamples ==
    Samples
    \cup {DailyInterval(d) : d \in (TodayDay - 1)..(TodayDay + 1)}
    \cup {DailyWithTemperature(TodayDay), TemperatureAndMax(TodayDay),
          AltInterval(TodayDay)}
    \cup {NullInterval, NoValuesInterval, EmptyValuesInterval, InvalidTimeInterval}

\* every list of at most MaxIntervals intervals of any kind, in every order
MixedLists == UNION {[1..n -> MixedSamples] : n \in 0..MaxIntervals}

\* the samples in every number and every order, none twice
SampleLists ==
    UNION {{l \in [1..n -> Samples] : \A j, k \in 1..n : l[j] = l[k] => j = k} :
            n \in 0..Cardinality(Samples)}

\* the runs of daily summaries, alone or after the sample of the clock reading
SampleAndRunLists ==
    RunLists \cup UNION {{<<SampleInterval(t)>> \o l : l \in RunLists} : t \in Nows}

\* the lists of samples behind a daily summary that carries temperature
DailyAndSampleLists == {<<DailyWithTemperature(TodayDay)>> \o l : l \in SampleLists}

CombinedResponses ==
    FailedResponses
    \cup OkResponses(MixedLists \cup SampleLists \cup DailyAndSampleLists
                     \cup SampleAndRunLists)

\* a variant: every interval that carries temperature looks current
IsCurrentLike_AnyTemperature(interval) == interval.values.temperature # Undefined

\* values.temperature !== undefined && values.temperatureMax === undefined
IsCurrentLike(interval) ==
    /\ interval.values.temperature # Undefined
    /\ interval.values.temperatureMax = Undefined

\* intervalDate <= now: false for an invalid date
NotAfter(startTime, t) == startTime # Undefined /\ startTime[1] <= t

\* intervalDate > new Date(potentialCurrentInterval.startTime): false when
\* either date is invalid
LaterThan(startTime, other) ==
    startTime # Undefined /\ other # Undefined /\ startTime[1] > other[1]

\* the condition under which the loop takes interval for the one it holds
Replaces(interval, potential, t) ==
    \/ potential = Undefined
    \/ /\ NotAfter(interval.startTime, t)
       /\ \/ potential[1].startTime = Undefined
          \/ LaterThan(interval.startTime, potential[1].startTime)

\* the loop that looks for the current sample: threw when it reads .values
\* of null or .temperature of undefined
RECURSIVE SelectCurrent(_, _, _)
SelectCurrent(intervals, potential, t) ==
    IF intervals = <<>> THEN [threw |-> FALSE, chosen |-> potential]
    ELSE LET interval == Head(intervals)
         IN  IF interval.kind # "values" THEN [threw |-> TRUE, chosen |-> potential]
             ELSE IF IsCurrentLike(interval) /\ Replaces(interval, potential, t)
                  THEN SelectCurrent(Tail(intervals), <<interval>>, t)
                  ELSE SelectCurrent(Tail(intervals), potential, t)

\* a variant: the first interval is taken when it carries temperature
FirstIntervalHeuristic_AnyTemperature(intervals, potential) ==
    IF potential = Undefined /\ Len(intervals) > 0
       /\ intervals[1].values.temperature # Undefined
    THEN <<intervals[1]>>
    ELSE potential

\* "try the first interval if it looks current-like"
FirstIntervalHeuristic(intervals, potential) ==
    IF potential = Undefined /\ Len(intervals) > 0 /\ IsCurrentLike(intervals[1])
    THEN <<intervals[1]>>
    ELSE potential

\* the current record built from the values of the chosen interval
MapCurrentCombined(cv) ==
    [owner |-> "call",
     temperature |-> MathRound(Coalesce(cv.temperature, Lit(0))),
     humidity |-> MathRound(Coalesce(cv.humidity, Lit(0))),
     windSpeed |-> WindKmh(Coalesce(cv.windSpeed, Lit(0))),
     weatherCode |-> Coalesce(cv.weatherCode, Zero),
     precipitationProbability |-> MathRound(Coalesce(cv.precipitationProbability, Lit(0))),
     uvIndex |-> MathRound(Coalesce(cv.uvIndex, Lit(0))),
     pressure |-> MathRound(Coalesce(cv.pressureSeaLevel, Lit(FallbackPressure))),
     weatherDescription |-> weatherCodeToString(cv.weatherCode)]

\* the default record of the handler, with its description
DefaultCurrent(description) ==
    [owner |-> "call", temperature |-> Num(0), humidity |-> Num(0),
     windSpeed |-> Num(0), weatherCode |-> Num(0),
     precipitationProbability |-> Num(0), uvIndex |-> Num(0),
     pressure |-> Num(FallbackPressure), weatherDescription |-> description]

\* the current record of the chosen interval, or the default values
CurrentOf(potential) ==
    IF potential # Undefined THEN MapCurrentCombined(potential[1].values)
    ELSE DefaultCurrent("Unavailable")

\* a variant: temperatureMax alone makes a daily interval
IsDailyLike_MaxOnly(interval) == interval.values.temperatureMax # Undefined

\* values.temperatureMax !== undefined && values.temperatureMin !== undefined
IsDailyLike(interval) ==
    /\ interval.values.temperatureMax # Undefined
    /\ interval.values.temperatureMin # Undefined

\* the forecast item pushed for a daily interval
MapDailyCombined(interval) ==
    [owner |-> "call",
     date |-> DateOf(interval.startTime[1]),
     tempMax |-> MathRound(Coalesce(interval.values.temperatureMax, Lit(0))),
     tempMin |-> MathRound(Coalesce(interval.values.temperatureMin, Lit(0))),
     weatherCode |->
        Coalesce(Coalesce(interval.values.weatherCodeDay, interval.values.weatherCode), Zero),
     weatherDescription |->
        weatherCodeToString(Coalesce(interval.values.weatherCodeDay, interval.values.weatherCode)),
     precipitationProbability |->
        MathRound(Coalesce(Coalesce(interval.values.precipitationProbabilityAvg,
                                    interval.values.precipitationProbability), Lit(0)))]

\* the loop that extracts the daily items: threw when format() is given an
\* invalid date
RECURSIVE ExtractDaily(_, _)
ExtractDaily(intervals, items) ==
    IF intervals = <<>> THEN [threw |-> FALSE, items |-> items]
    ELSE LET interval == Head(intervals)
         IN  IF IsDailyLike(interval) /\ Len(items) < ForecastDays
             THEN IF interval.startTime = Undefined THEN [threw |-> TRUE, items |-> items]
                  ELSE ExtractDaily(Tail(intervals), Append(items, MapDailyCombined(interval)))
             ELSE ExtractDaily(Tail(intervals), items)

\* parsedForecastItems.findIndex(f => f.date >= todayStr): an index from 0, or -1
FindIndexFrom(items, todayStr) ==
    LET at == {k \in 1..Len(items) : items[k].date >= todayStr}
    IN  IF at = {} THEN -1 ELSE (CHOOSE k \in at : \A j \in at : k <= j) - 1

\* new Date(date + 'T00:00:00Z')
ParseUtcDate(date) == date * TicksPerDay

\* baseDate: the start of today, or the date of the first item not before
\* today when that date is not before the start of today
BaseDate(items, t) ==
    LET found == FindIndexFrom(items, DateOf(StartOfDay(t)))
        currentForecastDayIndex == IF found = -1 THEN 0 ELSE found
        baseDate == StartOfDay(t)
    IN  IF Len(items) > 0 /\ currentForecastDayIndex > -1
        THEN LET firstForecastDate == ParseUtcDate(items[currentForecastDayIndex + 1].date)
             IN  IF firstForecastDate >= baseDate THEN firstForecastDate ELSE baseDate
        ELSE baseDate

\* the loop that fills finalForecastItems: seven days from baseDate
AlignCombined(items, t) ==
    [i \in 1..ForecastDays |->
        LET targetDateStr == DateOf(AddDays(BaseDate(items, t), i - 1))
            existingForecastDay == FindDay(items, targetDateStr)
        IN  IF existingForecastDay # Undefined THEN existingForecastDay[1]
            ELSE SentinelDay(targetDateStr)]

\* fallbackForecast of the catch block
CatchForecast(t) == [i \in 1..ForecastDays |-> SentinelDay(DateOf(AddDays(t, i - 1)))]

\* the result of the catch block
CatchResult(t) ==
    [current |-> DefaultCurrent("Error fetching"), forecast |-> CatchForecast(t)]

\* the body of the try: threw says whether it ended in an exception, chosen
\* is potentialCurrentInterval when it ended, result what it returned
CombinedBlock(resp, t) ==
    LET failed == [threw |-> TRUE, chosen |-> Undefined, result |-> NoResult]
    IN  IF resp.kind = "throw" THEN failed
        ELSE IF ~ResponseOk(resp.status) THEN failed
        ELSE IF resp.body # "intervals" THEN failed
        ELSE IF Len(resp.intervals) = 0 THEN failed
        ELSE LET s == SelectCurrent(resp.intervals, Undefined, t)
                 potential == FirstIntervalHeuristic(resp.intervals, s.chosen)
                 d == ExtractDaily(resp.intervals, <<>>)
             IN  IF s.threw THEN [failed EXCEPT !.chosen = s.chosen]
                 ELSE IF d.threw THEN [failed EXCEPT !.chosen = potential]
                 ELSE [threw |-> FALSE, chosen |-> potential,
                       result |-> [current |-> CurrentOf(potential),
                                   forecast |-> Slice(AlignCombined(SortByDate(d.items), t),
                                                      ForecastDays)]]

\* try { ... } catch (error) { ... return { current: fallbackCurrent, forecast: fallbackForecast } }
CombinedTryCatch(resp, t) ==
    LET r == CombinedBlock(resp, t)
    IN  IF r.threw THEN [threw |-> FALSE, chosen |-> r.chosen, result |-> CatchResult(t)]
        ELSE r

\* the tool of the combined-query revision is called: without an API key it
\* throws before the try, with one it goes on to the request
CombinedInvoke(keys) ==
    /\ Callable
    /\ \E key \in keys :
        /\ apiKey' = key
        /\ pc' = IF KeyMissing(key) THEN "raised" ELSE "fetch"
    /\ httpCalls' = 0
    /\ response' = NoResponse
    /\ potentialCurrentInterval' = Undefined
    /\ result' = NoResult
    /\ UNCHANGED now
    /\ UNCHANGED twoCall

\* the request, what the handler does with what it meets, and the return
CombinedFetch(responses) ==
    /\ pc = "fetch"
    /\ \E resp \in responses :
        /\ response' = resp
        /\ \E r \in {CombinedTryCatch(resp, now)} :
            /\ potentialCurrentInterval' = r.chosen
            /\ result' = IF r.threw THEN NoResult ELSE r.result
            /\ pc' = IF r.threw THEN "raised" ELSE "returned"
    /\ httpCalls' = httpCalls + 1
    /\ UNCHANGED <<apiKey, now>>
    /\ UNCHANGED twoCall

NextCombined ==
    \/ CombinedInvoke(KeyStates)
    \/ CombinedFetch(CombinedResponses)

SpecCombined == Init /\ [][NextCombined]_vars

----------------------------------------------------------------------------
(* Duplicate dates: the two-call handler on forecast responses that hold    *)
(* two intervals of one date of the window, before or after a run of daily  *)
(* summaries of other days.                                                 *)

Duplicates(d) == <<AltInterval(d), DailyInterval(d)>>

DuplicateLists ==
    LET runs == {[k \in 1..Cardinality(S) |-> DailyInterval(Ascending(S)[k])] :
                    S \in SUBSET Days}
    IN  UNION {{Duplicates(d) \o run, run \o Duplicates(d)} :
                    run \in runs, d \in TodayDay..(TodayDay + 6)}

NextDuplicates ==
    \/ InvokeWithKey(MapperKeys) /\ UNCHANGED others
    \/ FetchCurrent(OkResponses(CurrentLists)) /\ UNCHANGED others
    \/ FetchForecast(OkResponses(DuplicateLists)) /\ UNCHANGED others

SpecDuplicates == Init /\ [][NextDuplicates]_vars

----------------------------------------------------------------------------
(* The clock: the two-call handler reads new Date() once in every iteration *)
(* of createFallbackForecast, once for every interval it tests against the  *)
(* past-day filter and once in every iteration of the alignment loop, and   *)
(* it awaits two requests in between.  The wall clock advances on its own:  *)
(* by a tick while a request is awaited, and by a tick after any number of  *)
(* the reads of one synchronous stretch.                                    *)

\* the ticks the clock advances at most, over all invocations
MaxAdvance == 2

LastClock == TodayDay * TicksPerDay + TicksPerDay - 1 + MaxAdvance

\* the n-th new Date() of a stretch that began at t, the clock advancing
\* after the c-th read
ClockAt(t, c, n) == IF n > c THEN t + 1 ELSE t

\* after how many of a stretch's reads the clock can advance; reads: never
Crossings(t, reads) == IF t < LastClock THEN 0..reads ELSE {reads}

\* the clock when a stretch of that many reads ends
ClockAfter(t, c, reads) == IF c < reads THEN t + 1 ELSE t

\* createFallbackForecast(), iteration i reading the clock for itself
createFallbackForecastAt(t, c) ==
    [i \in 1..ForecastDays |->
        SentinelDay(DateOf(AddDays(StartOfDay(ClockAt(t, c, i)), i - 1)))]

\* the loop over the intervals; n - 1 reads of the clock were made before
RECURSIVE CollectItemsAt(_, _, _, _, _)
CollectItemsAt(intervals, items, t, c, n) ==
    IF intervals = <<>> THEN [threw |-> FALSE, items |-> items, reads |-> n - 1]
    ELSE LET interval == Head(intervals)
         IN  IF interval.kind = "null" THEN [threw |-> TRUE, items |-> items, reads |-> n - 1]
             ELSE IF interval.kind = "values" /\ Len(items) < ForecastDays
                  THEN IF NotPast(interval.startTime, ClockAt(t, c, n))
                       THEN CollectItemsAt(Tail(intervals), Append(items, MapDaily(interval)),
                                           t, c, n + 1)
                       ELSE CollectItemsAt(Tail(intervals), items, t, c, n + 1)
                  ELSE CollectItemsAt(Tail(intervals), items, t, c, n)

\* the alignment loop, iteration i reading the clock for itself; reads were
\* made before it
AlignForecastAt(items, t, c, reads) ==
    [i \in 1..ForecastDays |->
        LET targetDate == DateOf(AddDays(StartOfDay(ClockAt(t, c, reads + i)), i - 1))
            foundDay == FindDay(items, targetDate)
        IN  IF foundDay # Undefined THEN foundDay[1] ELSE SentinelDay(targetDate)]

\* the body of the second try from the response on, with the reads it made
ForecastBlockAt(resp, parsed, t, c) ==
    LET kept == [threw |-> FALSE, items |-> parsed, reads |-> 0]
    IN  IF resp.kind = "throw" THEN [kept EXCEPT !.threw = TRUE]
        ELSE IF ~ResponseOk(resp.status) THEN kept
        ELSE IF resp.body = "text" THEN [kept EXCEPT !.threw = TRUE]
        ELSE IF resp.body # "intervals" THEN kept
        ELSE LET col == CollectItemsAt(resp.intervals, <<>>, t, c, 1)
             IN  IF col.threw THEN [threw |-> TRUE, items |-> parsed, reads |-> col.reads]
                 ELSE IF Len(col.items) > 0
                      THEN [threw |-> FALSE,
                            items |-> AlignForecastAt(SortByDate(col.items), t, c, col.reads),
                            reads |-> col.reads + ForecastDays]
                      ELSE [threw |-> FALSE, items |-> parsed, reads |-> col.reads]

\* try { ... } catch (error) { console.error(...) }
ForecastTryCatchAt(resp, parsed, t, c) ==
    [ForecastBlockAt(resp, parsed, t, c) EXCEPT !.threw = FALSE]

\* the tool is called and finds no API key
ClockInvokeWithoutKey(keys) ==
    /\ Callable
    /\ \E key \in keys :
        /\ KeyMissing(key)
        /\ apiKey' = key
    /\ \E c \in Crossings(now, ForecastDays) :
        /\ result' = [current |-> MissingKeyCurrent(fallbackCurrent),
                      forecast |-> createFallbackForecastAt(now, c)]
        /\ now' = ClockAfter(now, c, ForecastDays)
    /\ httpCalls' = 0
    /\ curResp' = NoResponse
    /\ fcResp' = NoResponse
    /\ parsedCurrentWeather' = NoCurrent
    /\ parsedForecastItems' = <<>>
    /\ pc' = "returned"
    /\ UNCHANGED fallbackCurrent

\* the tool is called with an API key
ClockInvokeWithKey(keys) ==
    /\ Callable
    /\ \E key \in keys :
        /\ ~KeyMissing(key)
        /\ apiKey' = key
    /\ \E c \in Crossings(now, ForecastDays) :
        /\ parsedForecastItems' = createFallbackForecastAt(now, c)
        /\ now' = ClockAfter(now, c, ForecastDays)
    /\ httpCalls' = 0
    /\ curResp' = NoResponse
    /\ fcResp' = NoResponse
    /\ parsedCurrentWeather' = SpreadFallback(fallbackCurrent)
    /\ result' = NoResult
    /\ pc' = "fetchCurrent"
    /\ UNCHANGED fallbackCurrent

\* the clock advances while the handler awaits a request
Tick ==
    /\ pc \in {"fetchCurrent", "fetchForecast"}
    /\ now < LastClock
    /\ now' = now + 1
    /\ UNCHANGED <<pc, apiKey, httpCalls, curResp, fcResp, parsedCurrentWeather,
                   parsedForecastItems, result, fallbackCurrent>>

\* 2. Fetch 7-Day Forecast, and the return
ClockFetchForecast(responses) ==
    /\ pc = "fetchForecast"
    /\ \E resp \in responses :
        /\ fcResp' = resp
        /\ \E c \in Crossings(now, Len(resp.intervals) + ForecastDays) :
            \E r \in {ForecastTryCatchAt(resp, parsedForecastItems, now, c)} :
                /\ parsedForecastItems' = r.items
                /\ result' = [current |-> parsedCurrentWeather,
                              forecast |-> Slice(r.items, ForecastDays)]
                /\ now' = ClockAfter(now, c, r.reads)
    /\ pc' = "returned"
    /\ httpCalls' = httpCalls + 1
    /\ UNCHANGED <<apiKey, curResp, parsedCurrentWeather, fallbackCurrent>>

\* daily summaries of consecutive days from today or from tomorrow on
ClockForecastLists ==
    {[k \in 1..n |-> DailyInterval(d + k - 1)] :
        n \in 0..MaxIntervals, d \in {TodayDay, TodayDay + 1}}
    \cup {[k \in 1..ForecastDays |-> DailyInterval(TodayDay + k - 1)]}

ClockResponses == FailedResponses \cup OkResponses(ClockForecastLists)

NextClock ==
    \/ ClockInvokeWithoutKey(KeyStates) /\ UNCHANGED others
    \/ ClockInvokeWithKey(KeyStates) /\ UNCHANGED others
    \/ Tick /\ UNCHANGED others
    \/ FetchCurrent(OkResponses(CurrentLists)) /\ UNCHANGED others
    \/ ClockFetchForecast(ClockResponses) /\ UNCHANGED others

SpecClock == Init /\ [][NextClock]_vars

----------------------------------------------------------------------------
(* The weather widget of the dashboard page.  The page keeps the location   *)
(* and hands it to the widget as initialLatitude / initialLongitude; the    *)
(* widget keeps currentLatitude / currentLongitude, fetches the weather in  *)
(* transitions, and on mount starts a 30-minute interval whose callback was *)
(* created in the first render.                                             *)

\* transitions of fetchWeatherForLocation pending at most
MaxPending == 3

\* the places a position or a manual entry can name, in whole degrees
Places == {DefaultLocation, <<12, 77>>, <<-33, 151>>}

\* a call fetchWeatherForLocation(lat, lon) made by a call site
Request(lat, lon, by) == [lat |-> lat, lon |-> lon, by |-> by]

CanFetch == Len(inFlight) < MaxPending

\* isPending || isLocating: the buttons are disabled
Busy == inFlight # <<>> \/ isLocating # Undefined

\* tryAutoDetectLocation() of a render whose props were initial
TryAutoDetectLocation(initial, supported) ==
    IF supported
    THEN /\ isLocating' = <<initial>>
         /\ UNCHANGED inFlight
    ELSE /\ inFlight' = Append(inFlight, Request(initial[1], initial[2], "autodetect"))
         /\ UNCHANGED isLocating

\* the first render and the effect with the empty dependency list
Mount ==
    /\ ~mounted
    /\ mounted' = TRUE
    /\ currentLatitude' = currentLocation[1]
    /\ currentLongitude' = currentLocation[2]
    /\ closure' = [currentLatitude |-> currentLocation[1],
                   currentLongitude |-> currentLocation[2]]
    /\ \E supported \in BOOLEAN : TryAutoDetectLocation(currentLocation, supported)
    /\ UNCHANGED currentLocation

\* the button 'use current location'
ClickAutoDetect ==
    /\ mounted
    /\ ~Busy
    /\ \E supported \in BOOLEAN : TryAutoDetectLocation(currentLocation, supported)
    /\ UNCHANGED <<mounted, currentLocation, currentLatitude, currentLongitude, closure>>

\* getCurrentPosition succeeds
PositionFound(places) ==
    /\ isLocating # Undefined
    /\ CanFetch
    /\ \E position \in places :
        inFlight' = Append(inFlight, Request(position[1], position[2], "autodetect"))
    /\ isLocating' = Undefined
    /\ UNCHANGED <<mounted, currentLocation, currentLatitude, currentLongitude, closure>>

\* getCurrentPosition fails: the props of the render that asked are fetched
PositionError ==
    /\ isLocating # Undefined
    /\ CanFetch
    /\ inFlight' = Append(inFlight, Request(isLocating[1][1], isLocating[1][2], "autodetect"))
    /\ isLocating' = Undefined
    /\ UNCHANGED <<mounted, currentLocation, currentLatitude, currentLongitude, closure>>

\* handleFetchManualWeather with a valid entry
HandleFetchManualWeather(places) ==
    /\ mounted
    /\ ~Busy
    /\ \E entry \in places :
        inFlight' = Append(inFlight, Request(entry[1], entry[2], "manual"))
    /\ UNCHANGED <<mounted, currentLocation, currentLatitude, currentLongitude, closure,
                   isLocating>>

\* the callback of setInterval runs: it reads the currentLatitude and
\* currentLongitude of the render that created it
RefreshTick ==
    /\ mounted
    /\ CanFetch
    /\ closure.currentLatitude # 0 /\ closure.currentLongitude # 0
    /\ inFlight' = Append(inFlight,
                          Request(closure.currentLatitude, closure.currentLongitude, "refresh"))
    /\ UNCHANGED <<mounted, currentLocation, currentLatitude, currentLongitude, closure,
                   isLocating>>

RemoveAt(s, k) == SubSeq(s, 1, k - 1) \o SubSeq(s, k + 1, Len(s))

\* a transition settles: getWeather answered (setCurrentLatitude,
\* setCurrentLongitude, onLocationChange) or threw (onLocationChange, and the
\* effect that syncs the state with the changed props)
FetchSettles ==
    /\ \E k \in 1..Len(inFlight) :
        /\ currentLatitude' = inFlight[k].lat
        /\ currentLongitude' = inFlight[k].lon
        /\ currentLocation' = <<inFlight[k].lat, inFlight[k].lon>>
        /\ inFlight' = RemoveAt(inFlight, k)
    /\ UNCHANGED <<mounted, closure, isLocating>>

\* another widget of the page calls handleLocationChange: the props change
\* and the effect syncs the state with them
ParentLocationChange(places) ==
    /\ mounted
    /\ \E place \in places :
        /\ place # currentLocation
        /\ currentLocation' = place
        /\ currentLatitude' = place[1]
        /\ currentLongitude' = place[2]
    /\ UNCHANGED <<mounted, closure, isLocating, inFlight>>

NextWidget ==
    \/ Mount /\ UNCHANGED tool
    \/ ClickAutoDetect /\ UNCHANGED tool
    \/ PositionFound(Places) /\ UNCHANGED tool
    \/ PositionError /\ UNCHANGED tool
    \/ HandleFetchManualWeather(Places) /\ UNCHANGED tool
    \/ RefreshTick /\ UNCHANGED tool
    \/ FetchSettles /\ UNCHANGED tool
    \/ ParentLocationChange(Places) /\ UNCHANGED tool

SpecWidget == Init /\ [][NextWidget]_vars

----------------------------------------------------------------------------
(* The daily weather code on its own: the two-call handler and the handler  *)
(* of the combined-query revision on a response of one daily summary of     *)
(* today, over the values of its two code fields.                           *)

DayCodeSamples == {Undefined, Num(0), Num(1000), Num(4001), Num(9999)}

DailyCodeLists ==
    {<<Interval("values", Num(TodayDay * TicksPerDay),
                [DailyValues(TodayDay) EXCEPT !.weatherCodeDay = day,
                                              !.weatherCode = generic])>> :
        day \in DayCodeSamples, generic \in DayCodeSamples}

NextDailyCode ==
    \/ InvokeWithKey(MapperKeys) /\ UNCHANGED others
    \/ FetchCurrent(OkResponses(CurrentLists)) /\ UNCHANGED others
    \/ FetchForecast(OkResponses(DailyCodeLists)) /\ UNCHANGED others
    \/ CombinedInvoke(MapperKeys)
    \/ CombinedFetch(OkResponses(DailyCodeLists))

SpecDailyCode == Init /\ [][NextDailyCode]_vars

----------------------------------------------------------------------------
(* The 5-day revision (src/unnamed/part_003, lines 279-544): one request,   *)
(* the forecast is the first five daily summaries, and every error is       *)
(* thrown again to the caller.                                              *)

FiveDays == 5

\* a number the handler passes on without Math.round: a whole number when
\* the upstream value is whole, else the fraction v / Scale
Unrounded(v) == IF v[1] % Scale = 0 THEN Num(v[1] \div Scale) ELSE <<v[1], Scale>>

\* new Date(interval.startTime).getHours() === new Date().getUTCHours(), which
\* also holds when startTime is the clock reading itself
SameHour(startTime, t) ==
    startTime # Undefined /\ startTime[1] % TicksPerDay = t % TicksPerDay

\* intervals.find(...) for currentInterval, which is never read: whether it
\* threw, reading .startTime of null before an interval matched
RECURSIVE FindCurrentThrew(_, _)
FindCurrentThrew(intervals, t) ==
    IF intervals = <<>> THEN FALSE
    ELSE IF Head(intervals).kind = "null" THEN TRUE
    ELSE IF SameHour(Head(intervals).startTime, t) THEN FALSE
    ELSE FindCurrentThrew(Tail(intervals), t)

\* the current record built from the values of intervals[0]
MapCurrentFiveDay(currentValues) ==
    [owner |-> "call",
     temperature |-> MathRound(Coalesce(currentValues.temperature, Lit(0))),
     humidity |-> MathRound(Coalesce(currentValues.humidity, Lit(0))),
     windSpeed |-> WindKmh(Coalesce(currentValues.windSpeed, Lit(0))),
     weatherCode |-> Coalesce(currentValues.weatherCode, Zero),
     precipitationProbability |->
        MathRound(Coalesce(currentValues.precipitationProbability, Lit(0))),
     uvIndex |-> Unrounded(Coalesce(currentValues.uvIndex, Lit(0))),
     pressure |-> MathRound(Coalesce(currentValues.pressureSeaLevel, Lit(FallbackPressure))),
     weatherDescription |-> weatherCodeToString(currentValues.weatherCode)]

\* currentWeatherData: mapped from intervals[0] when it carries temperature
CurrentFiveDay(intervals) ==
    IF Len(intervals) > 0 /\ intervals[1].values.temperature # Undefined
    THEN MapCurrentFiveDay(intervals[1].values)
    ELSE DefaultCurrent("Unavailable")

\* intervals.filter(interval => interval.values.temperatureMax !== undefined)
FilterDaily(intervals) == SelectSeq(intervals, LAMBDA x : x.values.temperatureMax # Undefined)

\* startTime >= startOfDay(addDays(new Date(), 1)): false for an invalid date
FromTomorrow(startTime, t) ==
    startTime # Undefined /\ startTime[1] >= StartOfDay(AddDays(t, 1))

\* the forecast item pushed for dayData
MapDailyFiveDay(dayData) ==
    [owner |-> "call",
     date |-> DateOf(dayData.startTime[1]),
     tempMax |-> MathRound(Coalesce(dayData.values.temperatureMax, Lit(0))),
     tempMin |-> MathRound(Coalesce(dayData.values.temperatureMin, Lit(0))),
     weatherCode |->
        Coalesce(dayData.values.weatherCodeDay, Coalesce(dayData.values.weatherCode, Zero)),
     weatherDescription |->
        weatherCodeToString(Coalesce(dayData.values.weatherCodeDay, dayData.values.weatherCode)),
     precipitationProbability |->
        MathRound(Coalesce(dayData.values.precipitationProbabilityAvg,
                           Coalesce(dayData.values.precipitationProbability, Lit(0))))]

\* the loop over forecastIntervals from index i: threw when format() is
\* given an invalid date
RECURSIVE CollectFiveDay(_, _, _, _)
CollectFiveDay(forecastIntervals, i, items, t) ==
    IF i > Len(forecastIntervals) \/ Len(items) >= FiveDays
    THEN [threw |-> FALSE, items |-> items]
    ELSE LET dayData == forecastIntervals[i]
         IN  IF FromTomorrow(dayData.startTime, t) \/ (i = 1 /\ Len(items) = 0)
             THEN IF dayData.startTime = Undefined THEN [threw |-> TRUE, items |-> items]
                  ELSE CollectFiveDay(forecastIntervals, i + 1,
                                      Append(items, MapDailyFiveDay(dayData)), t)
             ELSE CollectFiveDay(forecastIntervals, i + 1, items, t)

\* while (dailyForecastItems.length < 5): a placeholder dated a day after
\* the last item, or after today when there is none
RECURSIVE PadFiveDay(_, _)
PadFiveDay(items, t) ==
    IF Len(items) >= FiveDays THEN items
    ELSE LET lastDate == IF Len(items) > 0 THEN items[Len(items)].date ELSE DateOf(t)
         IN  PadFiveDay(Append(items, SentinelDay(DateOf(AddDays(ParseUtcDate(lastDate), 1)))), t)

\* the body of the try
FiveDayBlock(resp, t) ==
    LET failed == [threw |-> TRUE, result |-> NoResult]
    IN  IF resp.kind = "throw" THEN failed
        ELSE IF ~ResponseOk(resp.status) THEN failed
        ELSE IF resp.body # "intervals" THEN failed
        ELSE IF FindCurrentThrew(resp.intervals, t) THEN failed
        ELSE IF \E k \in 1..Len(resp.intervals) : resp.intervals[k].kind # "values" THEN failed
        ELSE LET c == CollectFiveDay(FilterDaily(resp.intervals), 1, <<>>, t)
             IN  IF c.threw THEN failed
                 ELSE [threw |-> FALSE,
                       result |-> [current |-> CurrentFiveDay(resp.intervals),
                                   forecast |-> Slice(PadFiveDay(c.items, t), FiveDays)]]

\* try { ... } catch (error) { ... throw new Error(...) }
FiveDayTryCatch(resp, t) == FiveDayBlock(resp, t)

\* the tool of the 5-day revision is called: without an API key it throws
FiveDayInvoke(keys) ==
    /\ Callable
    /\ \E key \in keys :
        /\ apiKey' = key
        /\ pc' = IF KeyMissing(key) THEN "raised" ELSE "fetchFiveDay"
    /\ httpCalls' = 0
    /\ response' = NoResponse
    /\ result' = NoResult
    /\ UNCHANGED <<now, potentialCurrentInterval>>
    /\ UNCHANGED twoCall

\* the request, what the handler does with what it meets, and the return
FiveDayFetch(responses) ==
    /\ pc = "fetchFiveDay"
    /\ \E resp \in responses :
        /\ response' = resp
        /\ \E r \in {FiveDayTryCatch(resp, now)} :
            /\ result' = r.result
            /\ pc' = IF r.threw THEN "raised" ELSE "returned"
    /\ httpCalls' = httpCalls + 1
    /\ UNCHANGED <<apiKey, now, potentialCurrentInterval>>
    /\ UNCHANGED twoCall

FiveDayResponses == FailedResponses \cup OkResponses(MixedLists \cup SampleAndRunLists)

NextFiveDay ==
    \/ FiveDayInvoke(KeyStates)
    \/ FiveDayFetch(FiveDayResponses)

SpecFiveDay == Init /\ [][NextFiveDay]_vars

----------------------------------------------------------------------------
(* Vocabulary of the properties *)

Today == DateOf(now)

Offsets == 0..(ForecastDays - 1)

\* the API key is absent: not set, or set to the empty string
KeyAbsent == apiKey \in {"unset", "empty"}

\* f is the placeholder of the day date
IsSentinelDay(f, date) ==
    /\ f.date = date
    /\ f.tempMax = Num(0)
    /\ f.tempMin = Num(0)
    /\ f.weatherCode = Num(0)
    /\ f.precipitationProbability = Num(0)
    /\ f.weatherDescription = "N/A"

\* forecast is the seven placeholders of today .. today + 6
IsSentinelForecast(forecast) ==
    /\ Len(forecast) = ForecastDays
    /\ \A i \in Offsets : IsSentinelDay(forecast[i + 1], Today + i)

\* c is the sentinel of the current conditions as the code builds it: zero
\* everywhere but the pressure, which is 1000
IsFallbackCurrent(c) ==
    /\ c.temperature = Num(0)
    /\ c.humidity = Num(0)
    /\ c.windSpeed = Num(0)
    /\ c.weatherCode = Num(0)
    /\ c.precipitationProbability = Num(0)
    /\ c.uvIndex = Num(0)
    /\ c.pressure = Num(1000)
    /\ c.weatherDescription = "Unavailable"

\* a and b have the same fields (the owner is no field of the object)
SameFields(a, b) == [a EXCEPT !.owner = ""] = [b EXCEPT !.owner = ""]

Non2xx(resp) == resp.kind = "http" /\ ~(200 <= resp.status /\ resp.status <= 299)

\* the request failed: fetch rejected, the status is not 2xx, the body is no
\* JSON, or the JSON has no data.timelines[0].intervals
CallFailed(resp) ==
    \/ resp.kind = "throw"
    \/ Non2xx(resp)
    \/ resp.kind = "http" /\ resp.body \in {"text", "noIntervals"}

\* the response is a 2xx with an intervals array
HasIntervals(resp) ==
    resp.kind = "http" /\ ~Non2xx(resp) /\ resp.body = "intervals"

\* interval k of the forecast response has a values map and a date
Dated(k) ==
    /\ fcResp.intervals[k].kind = "values"
    /\ fcResp.intervals[k].startTime # Undefined

DayOfInterval(k) == fcResp.intervals[k].startTime[1] \div TicksPerDay

\* an error in the forecast call: the request failed, or mapping an interval
\* raised (a null interval)
ForecastError ==
    \/ CallFailed(fcResp)
    \/ HasIntervals(fcResp)
       /\ \E k \in 1..Len(fcResp.intervals) : fcResp.intervals[k].kind = "null"

\* the forecast response is a 2xx with an array of interval objects
ForecastWellFormed ==
    /\ HasIntervals(fcResp)
    /\ \A k \in 1..Len(fcResp.intervals) : fcResp.intervals[k].kind # "null"

----------------------------------------------------------------------------
(* C1: the returned forecast has exactly 7 entries and entry i is dated
   today + i, whatever the credential and whatever the two requests met. *)
C1_ForecastShape ==
    Returned =>
        /\ Len(result.forecast) = 7
        /\ \A i \in 0..6 : result.forecast[i + 1].date = Today + i

\* a return after a forecast response of more than 7 intervals, some of them
\* past or beyond the window, that left both data and placeholders
C1_Witness ==
    /\ Returned
    /\ ForecastWellFormed
    /\ Len(fcResp.intervals) > 7
    /\ \E k \in 1..Len(fcResp.intervals) : Dated(k) /\ DayOfInterval(k) < Today
    /\ \E k \in 1..Len(fcResp.intervals) : Dated(k) /\ DayOfInterval(k) > Today + 6
    /\ \E i \in 0..6 : IsSentinelDay(result.forecast[i + 1], Today + i)
    /\ \E i \in 0..6 : ~IsSentinelDay(result.forecast[i + 1], Today + i)

(* C2: the tool never raises; whatever failed, it returns a result whose
   current record and 7 forecast records have no undefined field. *)
C2_NeverRaises ==
    /\ pc # "raised"
    /\ Returned =>
        /\ \A f \in {"temperature", "humidity", "windSpeed", "weatherCode",
                     "precipitationProbability", "uvIndex", "pressure"} :
                result.current[f] # Undefined
        /\ Len(result.forecast) = 7
        /\ \A i \in 1..7 :
            \A f \in {"tempMax", "tempMin", "weatherCode", "precipitationProbability"} :
                result.forecast[i][f] # Undefined

\* a return after the first request was rejected and the mapping of the
\* second response raised
C2_Witness ==
    /\ Returned
    /\ curResp.kind = "throw"
    /\ HasIntervals(fcResp)
    /\ \E k \in 1..Len(fcResp.intervals) : fcResp.intervals[k].kind = "null"

(* C3: with the API key absent the invocation issues no request and returns
   the sentinel current and the 7 placeholders of today .. today + 6. *)
C3_MissingKeyNoRequest ==
    (Returned /\ KeyAbsent) =>
        /\ httpCalls = 0
        /\ IsFallbackCurrent(result.current)
        /\ IsSentinelForecast(result.forecast)

C3_Witness == Returned /\ apiKey = "unset"

(* C4: when both requests are answered with a non-2xx status, the current
   description is "Unavailable" and the forecast is the 7 placeholders, entry
   i dated today + i. *)
C4_AllNon2xx ==
    (Returned /\ Non2xx(curResp) /\ Non2xx(fcResp)) =>
        /\ result.current.weatherDescription = "Unavailable"
        /\ IsSentinelForecast(result.forecast)

C4_Witness ==
    /\ Returned
    /\ curResp.kind = "http" /\ curResp.status = 500
    /\ fcResp.kind = "http" /\ fcResp.status = 500

\* an error in the current call
CurrentError == CallFailed(curResp)

\* some entry of the forecast carries upstream data
SomeMappedDay == \E i \in 0..6 : ~IsSentinelDay(result.forecast[i + 1], Today + i)

(* C5: whenever an error occurs in one of the two calls, the part of the
   result that call feeds is the sentinel: an error in the current call
   gives the sentinel current, an error in the forecast call gives the full
   sentinel forecast of length 7. *)
C5_PerCallFallback ==
    (Returned /\ apiKey = "set") =>
        /\ CurrentError => IsFallbackCurrent(result.current)
        /\ ForecastError => IsSentinelForecast(result.forecast)

\* the claim as stated: an error in either call makes both parts sentinel
C5_AnyErrorFullSentinel ==
    (Returned /\ apiKey = "set" /\ (CurrentError \/ ForecastError)) =>
        /\ IsFallbackCurrent(result.current)
        /\ IsSentinelForecast(result.forecast)

\* the current call failed and the forecast call brought data
C5_Witness ==
    /\ Returned
    /\ apiKey = "set"
    /\ CurrentError
    /\ ~ForecastError
    /\ IsFallbackCurrent(result.current)
    /\ SomeMappedDay

\* the days of the window the forecast response has a dated interval for
Covered == {i \in 0..6 : \E k \in 1..Len(fcResp.intervals) :
                             Dated(k) /\ DayOfInterval(k) = Today + i}

\* entry i of the forecast is the record mapped from interval k
MappedFrom(i, k) ==
    /\ Dated(k)
    /\ DayOfInterval(k) = Today + i
    /\ SameFields(result.forecast[i + 1], MapDaily(fcResp.intervals[k]))

(* C6: for every well-formed forecast response and every offset i, if the
   response holds an interval with a values map dated today + i, entry i of
   the forecast is the record mapped from an interval of that date, not the
   placeholder. *)
C6_CoveredDayUsed ==
    (Returned /\ ForecastWellFormed) =>
        \A i \in Covered :
            /\ \E k \in 1..Len(fcResp.intervals) : MappedFrom(i, k)
            /\ ~IsSentinelDay(result.forecast[i + 1], Today + i)

\* every interval has a values map and a date inside the window, no two of
\* them the same date
OnePerDayInWindow ==
    /\ ForecastWellFormed
    /\ \A k \in 1..Len(fcResp.intervals) :
        Dated(k) /\ DayOfInterval(k) - Today \in 0..6
    /\ \A j, k \in 1..Len(fcResp.intervals) :
        DayOfInterval(j) = DayOfInterval(k) => j = k

(* C7: when the forecast response holds at most one interval per date and
   covers a non-empty proper subset S of the offsets 0..6, entry i of the
   forecast is the placeholder of today + i exactly for the i outside S and
   the record mapped from the interval of that day for every i in S. *)
C7_Padding ==
    (Returned /\ OnePerDayInWindow /\ Covered # {} /\ Covered # 0..6) =>
        \A i \in 0..6 :
            IF i \in Covered
            THEN /\ \E k \in 1..Len(fcResp.intervals) : MappedFrom(i, k)
                 /\ ~IsSentinelDay(result.forecast[i + 1], Today + i)
            ELSE IsSentinelDay(result.forecast[i + 1], Today + i)

\* the scenario of the specification: days 0, 1, 3 and 4 are covered
C7_Witness ==
    /\ Returned
    /\ OnePerDayInWindow
    /\ Covered = {0, 1, 3, 4}
    /\ IsSentinelDay(result.forecast[3], Today + 2)
    /\ result.forecast[4].weatherDescription = "Clear"

(* C9: every record of a returned result is an object the invocation built:
   none is a module-level object. *)
C9_FreshRecords ==
    Returned =>
        /\ result.current.owner = "call"
        /\ \A i \in 1..Len(result.forecast) : result.forecast[i].owner = "call"

\* the current conditions could not be obtained: no key, a failed call, or a
\* response without a first interval with values
CurrentUnavailable ==
    \/ KeyAbsent
    \/ CallFailed(curResp)
    \/ HasIntervals(curResp)
       /\ (curResp.intervals = <<>> \/ curResp.intervals[1].kind # "values")

(* C10: whenever the current conditions cannot be obtained, the current
   record has pressure 1000, every other numeric field 0 and the description
   "Unavailable". *)
C10_SentinelCurrent ==
    (Returned /\ CurrentUnavailable) =>
        /\ result.current.temperature = Num(0)
        /\ result.current.humidity = Num(0)
        /\ result.current.windSpeed = Num(0)
        /\ result.current.weatherCode = Num(0)
        /\ result.current.precipitationProbability = Num(0)
        /\ result.current.uvIndex = Num(0)
        /\ result.current.pressure = Num(1000)
        /\ result.current.weatherDescription = "Unavailable"

\* the claim as stated: every numeric field is 0
C10_AllZeroCurrent ==
    (Returned /\ CurrentUnavailable) =>
        /\ \A f \in {"temperature", "humidity", "windSpeed", "weatherCode",
                     "precipitationProbability", "uvIndex", "pressure"} :
                result.current[f] = Num(0)
        /\ result.current.weatherDescription = "Unavailable"

\* a return with a key after a response whose first interval has no values
C10_Witness ==
    /\ Returned
    /\ apiKey = "set"
    /\ HasIntervals(curResp)
    /\ curResp.intervals # <<>>
    /\ curResp.intervals[1].kind = "novalues"

\* a later invocation observed what the remembered one observed
SameObservations ==
    /\ prev.set
    /\ prev.later
    /\ apiKey = prev.apiKey
    /\ curResp = prev.curResp
    /\ fcResp = prev.fcResp

(* C8: two invocations that observe the same credential state, the same
   clock and the same upstream responses return the same result, field for
   field, whatever invocations ran between them. *)
C8_Idempotent ==
    (Returned /\ SameObservations) =>
        /\ SameFields(result.current, prev.result.current)
        /\ Len(result.forecast) = Len(prev.result.forecast)
        /\ \A i \in 1..Len(result.forecast) :
            SameFields(result.forecast[i], prev.result.forecast[i])

\* a later invocation that observed what the remembered one did: a failed
\* current call and a forecast with data
C8_Witness ==
    /\ Returned
    /\ SameObservations
    /\ httpCalls = 2
    /\ CallFailed(curResp)
    /\ SomeMappedDay

----------------------------------------------------------------------------
\* the call succeeded (2xx, JSON with an intervals array) and the array is empty
EmptyIntervals(resp) == HasIntervals(resp) /\ resp.intervals = <<>>

(* C11: when a call succeeds with an empty intervals list, the part of the
   result that call feeds falls back: an empty current list gives the
   sentinel current, an empty forecast list gives the 7 placeholders; both
   parts are sentinel when both lists are empty. *)
C11_ZeroIntervalsPerCall ==
    (Returned /\ apiKey = "set") =>
        /\ EmptyIntervals(curResp) => IsFallbackCurrent(result.current)
        /\ EmptyIntervals(fcResp) => IsSentinelForecast(result.forecast)

\* C11 as stated: an empty list in either call makes both parts sentinel
C11_ZeroIntervalsBothParts ==
    (Returned /\ apiKey = "set" /\ (EmptyIntervals(curResp) \/ EmptyIntervals(fcResp))) =>
        /\ IsFallbackCurrent(result.current)
        /\ IsSentinelForecast(result.forecast)

\* both calls succeeded with an empty list
C11_Witness ==
    /\ Returned
    /\ EmptyIntervals(curResp)
    /\ EmptyIntervals(fcResp)
    /\ IsFallbackCurrent(result.current)
    /\ IsSentinelForecast(result.forecast)

----------------------------------------------------------------------------
(* Properties of the combined-query revision *)

\* one of the error kinds met the request: the network failed, the status
\* is not 2xx, the body is malformed, or the list of intervals is empty
RequestError == CallFailed(response) \/ EmptyIntervals(response)

\* c is a sentinel current record: zero everywhere but the pressure, with
\* one of the two descriptions the handler gives a record without data
IsSentinelCurrent(c) ==
    /\ c.temperature = Num(0)
    /\ c.humidity = Num(0)
    /\ c.windSpeed = Num(0)
    /\ c.weatherCode = Num(0)
    /\ c.precipitationProbability = Num(0)
    /\ c.uvIndex = Num(0)
    /\ c.pressure = Num(1000)
    /\ c.weatherDescription \in {"Unavailable", "Error fetching"}

(* C12: in the combined-query revision none of the five error kinds (missing
   credential, network failure, non-2xx status, malformed response, no usable
   intervals) leaves the tool as an exception; each ends in a returned
   sentinel result. *)
C12_NoErrorPropagates ==
    /\ pc # "raised"
    /\ (Returned /\ RequestError) =>
        /\ IsSentinelCurrent(result.current)
        /\ IsSentinelForecast(result.forecast)

(* C13: in the combined-query revision, whenever the response holds a
   non-empty list of intervals, the returned forecast has exactly 7 entries
   and entry i is dated today + i. *)
C13_CombinedShape ==
    (Returned /\ HasIntervals(response) /\ response.intervals # <<>>) =>
        /\ Len(result.forecast) = 7
        /\ \A i \in 0..6 : result.forecast[i + 1].date = Today + i

----------------------------------------------------------------------------
(* C14: in the 5-day revision, whenever the tool returns a result, the
   forecast has exactly 5 entries, each dated one day after the entry before
   it, and none dated before today. *)
C14_FiveDayShape ==
    Returned =>
        /\ Len(result.forecast) = 5
        /\ \A i \in 1..4 : result.forecast[i + 1].date = result.forecast[i].date + 1
        /\ \A i \in 1..5 : result.forecast[i].date >= Today

----------------------------------------------------------------------------
\* the values of the interval hold both temperatureMax and temperatureMin
HasBothExtremes(interval) ==
    /\ interval.values.temperatureMax # Undefined
    /\ interval.values.temperatureMin # Undefined

\* the day interval k of the response starts in; no day for an invalid date
DayOfStart(k) ==
    IF response.intervals[k].startTime = Undefined THEN -1
    ELSE response.intervals[k].startTime[1] \div TicksPerDay

\* the interval is one of the response
InResponse(interval) ==
    \E k \in 1..Len(response.intervals) : response.intervals[k] = interval

(* C15: in the combined-query revision the interval chosen as the source of
   the current record is an interval of the response that never holds both
   temperatureMax and temperatureMin, whether or not it carries temperature;
   a response of such intervals only leaves the current record without a
   source. *)
C15_DailyNeverCurrent ==
    /\ potentialCurrentInterval # Undefined =>
        /\ InResponse(potentialCurrentInterval[1])
        /\ ~HasBothExtremes(potentialCurrentInterval[1])
    /\ (Returned /\ HasIntervals(response)
        /\ \A k \in 1..Len(response.intervals) :
              /\ response.intervals[k].kind = "values"
              /\ HasBothExtremes(response.intervals[k])) =>
        /\ potentialCurrentInterval = Undefined
        /\ IsSentinelCurrent(result.current)

\* the response starts with a daily summary that also carries temperature,
\* it became a forecast entry, and another interval became the current record
C15_Witness ==
    /\ Returned
    /\ HasIntervals(response)
    /\ Len(response.intervals) > 1
    /\ response.intervals[1].kind = "values"
    /\ HasBothExtremes(response.intervals[1])
    /\ response.intervals[1].values.temperature # Undefined
    /\ potentialCurrentInterval # Undefined
    /\ \E i \in 0..6 : ~IsSentinelDay(result.forecast[i + 1], Today + i)

----------------------------------------------------------------------------
(* Properties of the field mapper *)

\* the upstream values the current record was mapped from
CurrentSource == curResp.intervals[1].values

\* the upstream values the forecast entry of today was mapped from
DailySource == fcResp.intervals[1].values

\* the code the daily record is described by
DailyCode == IF DailySource.weatherCodeDay # Undefined THEN DailySource.weatherCodeDay
             ELSE DailySource.weatherCode

\* the description the lookup table lists for the code n, or "Code n"
Described(n, description) ==
    /\ n = 0 => description = "Unknown"
    /\ n = 1000 => description = "Clear"
    /\ n = 4001 => description = "Rain"
    /\ n = 8000 => description = "Thunderstorm"
    /\ n \in KnownCodes => description = CodeTable(n)
    /\ n \notin KnownCodes => description = "Code " \o ToString(n)

(* C16: for every numeric weather code n the description of a mapped record
   is the entry of the lookup table when the table lists n and exactly
   "Code n" when it does not (9999 gives "Code 9999"), and no error is
   raised. *)
C16_CodeDescription ==
    /\ pc # "raised"
    /\ Returned =>
        /\ CurrentSource.weatherCode # Undefined =>
              Described(CurrentSource.weatherCode[1], result.current.weatherDescription)
        /\ DailyCode # Undefined =>
              Described(DailyCode[1], result.forecast[1].weatherDescription)

\* the code 9999 in the current sample, an unlisted code in the daily summary
C16_Witness ==
    /\ Returned
    /\ CurrentSource.weatherCode = Num(9999)
    /\ result.current.weatherDescription = "Code 9999"
    /\ DailyCode # Undefined
    /\ DailyCode[1] \notin KnownCodes

(* C17: for every upstream wind speed ms the windSpeed of the mapped current
   record is ms * 3.6 rounded to one decimal place: no multiple of 0.1 is
   nearer to ms * 3.6. 10 m/s gives 36.0 and an absent wind speed gives 0. *)
C17_WindSpeedKmh ==
    Returned =>
        /\ CurrentSource.windSpeed # Undefined =>
            LET w == CurrentSource.windSpeed[1]
                k == result.current.windSpeed[1]
            IN  /\ 72 * w - Scale < 2 * Scale * k
                /\ 2 * Scale * k <= 72 * w + Scale
                /\ w = 10 * Scale => k = 360
        /\ CurrentSource.windSpeed = Undefined => result.current.windSpeed = Num(0)

\* a wind speed of 10 m/s was mapped to 36.0 km/h
C17_Witness ==
    /\ Returned
    /\ CurrentSource.windSpeed = Num(10 * Scale)
    /\ result.current.windSpeed = Num(360)

----------------------------------------------------------------------------
(* Properties of the classifier of the combined-query revision *)

\* the try block ran to its return: the response held intervals and the
\* catch block did not build the result
Parsed ==
    /\ Returned
    /\ HasIntervals(response)
    /\ result.current.weatherDescription # "Error fetching"

Indices == 1..Len(response.intervals)

\* interval k carries temperature
HasTemperature(k) == response.intervals[k].values.temperature # Undefined

\* interval k carries temperatureMax and temperatureMin
BothExtremes(k) == HasBothExtremes(response.intervals[k])

\* interval k carries temperature and no temperatureMax
TemperatureNoMax(k) ==
    HasTemperature(k) /\ response.intervals[k].values.temperatureMax = Undefined

\* interval k starts at the clock reading or before it
NotAfterNow(k) ==
    /\ response.intervals[k].startTime # Undefined
    /\ response.intervals[k].startTime[1] <= now

\* interval k is the interval chosen for the current record
Chosen(k) == potentialCurrentInterval = <<response.intervals[k]>>

\* the daily side of the rule: an entry with data comes from an interval
\* with both extremes, and such an interval dated today or later leaves data
DailyRule ==
    /\ \A i \in 1..Len(result.forecast) :
        result.forecast[i].weatherDescription # "N/A" =>
            \E k \in Indices :
                /\ BothExtremes(k)
                /\ response.intervals[k].startTime # Undefined
                /\ SameFields(result.forecast[i], MapDailyCombined(response.intervals[k]))
    /\ (\E k \in Indices : BothExtremes(k) /\ DayOfStart(k) >= Today) =>
            result.forecast[1].weatherDescription # "N/A"

(* C18: in the combined-query revision an interval is a daily candidate if
   and only if its values hold both temperatureMax and temperatureMin, and it
   is a current candidate if and only if they hold temperature and no
   temperatureMax; an interval with temperature and temperatureMax and no
   temperatureMin is neither. *)
C18_DecisionRuleOfTheCode ==
    Parsed =>
        /\ DailyRule
        /\ potentialCurrentInterval # Undefined <=> \E k \in Indices : TemperatureNoMax(k)
        /\ \A k \in Indices : Chosen(k) => TemperatureNoMax(k)
        /\ (\A k \in Indices : HasTemperature(k) /\ ~TemperatureNoMax(k) /\ ~BothExtremes(k)) =>
              /\ potentialCurrentInterval = Undefined
              /\ \A i \in 1..Len(result.forecast) : result.forecast[i].weatherDescription = "N/A"

\* C18 as stated: every interval that is no daily candidate and carries
\* temperature is a current candidate
C18_DecisionRule ==
    Parsed =>
        /\ DailyRule
        /\ potentialCurrentInterval # Undefined <=>
              \E k \in Indices : HasTemperature(k) /\ ~BothExtremes(k)
        /\ \A k \in Indices : Chosen(k) => HasTemperature(k) /\ ~BothExtremes(k)

\* the response is one interval with temperature and temperatureMax and no
\* temperatureMin: no current record and no forecast entry comes from it
C18_Witness ==
    /\ Parsed
    /\ Len(response.intervals) = 1
    /\ HasTemperature(1)
    /\ response.intervals[1].values.temperatureMax # Undefined
    /\ response.intervals[1].values.temperatureMin = Undefined
    /\ potentialCurrentInterval = Undefined
    /\ result.current.weatherDescription = "Unavailable"

(* C19: in the combined-query revision, for every list of intervals in any
   order, if some current candidate starts at the clock reading or before it,
   the chosen interval is such a candidate and none of them starts later than
   it: a candidate that starts after the clock reading is never chosen. *)
C19_LatestNotAfterNow ==
    (Parsed /\ \E k \in Indices : TemperatureNoMax(k) /\ NotAfterNow(k)) =>
        \E k \in Indices :
            /\ Chosen(k)
            /\ TemperatureNoMax(k)
            /\ NotAfterNow(k)
            /\ \A j \in Indices :
                (TemperatureNoMax(j) /\ NotAfterNow(j)) =>
                    response.intervals[j].startTime[1] <= response.intervals[k].startTime[1]

\* the first current candidate of the list
FirstCandidate(k) == TemperatureNoMax(k) /\ \A j \in 1..(k - 1) : ~TemperatureNoMax(j)

(* C20: in the combined-query revision, when current candidates exist and
   none starts at the clock reading or before it, the chosen interval is the
   first candidate of the list; when no candidate exists no interval is
   chosen and the current record is the sentinel. *)
C20_FirstCandidateFallback ==
    Parsed =>
        /\ (/\ \E k \in Indices : TemperatureNoMax(k)
            /\ \A k \in Indices : TemperatureNoMax(k) => ~NotAfterNow(k)) =>
                \E k \in Indices : FirstCandidate(k) /\ Chosen(k)
        /\ (\A k \in Indices : ~TemperatureNoMax(k)) =>
                /\ potentialCurrentInterval = Undefined
                /\ IsFallbackCurrent(result.current)

\* two candidates, none starting by the clock reading, behind an interval
\* that is no candidate
C20_Witness ==
    /\ Parsed
    /\ Len(response.intervals) > 2
    /\ ~TemperatureNoMax(1)
    /\ TemperatureNoMax(2)
    /\ TemperatureNoMax(3)
    /\ response.intervals[2] # response.intervals[3]
    /\ \A k \in Indices : TemperatureNoMax(k) => ~NotAfterNow(k)
    /\ Chosen(2)

----------------------------------------------------------------------------
(* Properties of the two requests of the two-call revision *)

\* an invocation with a key ran after the remembered one, which had a key too
BothWithKey == prev.set /\ prev.later /\ apiKey = "set" /\ prev.apiKey = "set"

\* the forecasts of this invocation and the remembered one agree
SameForecast ==
    /\ Len(result.forecast) = Len(prev.result.forecast)
    /\ \A i \in 1..Len(result.forecast) :
        SameFields(result.forecast[i], prev.result.forecast[i])

(* C21: the forecast request is issued exactly once whatever the current
   request met; two invocations that meet the same forecast response return
   the same forecast whatever their current requests met, and two that meet
   the same current response return the same current record whatever their
   forecast requests met. *)
C21_IndependentCalls ==
    /\ pc # "raised"
    /\ (apiKey = "set" /\ curResp # NoResponse) => pc \in {"fetchForecast", "returned"}
    /\ (Returned /\ apiKey = "set") => (httpCalls = 2 /\ fcResp # NoResponse)
    /\ (Returned /\ BothWithKey /\ fcResp = prev.fcResp) => SameForecast
    /\ (Returned /\ BothWithKey /\ curResp = prev.curResp) =>
            SameFields(result.current, prev.result.current)

\* the same forecast response with data, after a current request that failed
\* here and succeeded in the remembered invocation
C21_Witness ==
    /\ Returned
    /\ BothWithKey
    /\ fcResp = prev.fcResp
    /\ CallFailed(curResp)
    /\ ~CallFailed(prev.curResp)
    /\ ~IsFallbackCurrent(prev.result.current)
    /\ SomeMappedDay

(* C22: an invocation issues each of its two requests at most once: none
   before the current request, one before the forecast request, two when it
   returns with a key and none when it returns without, whatever failed. *)
C22_NoRetries ==
    /\ httpCalls <= 2
    /\ pc = "fetchCurrent" => (httpCalls = 0 /\ curResp = NoResponse /\ fcResp = NoResponse)
    /\ pc = "fetchForecast" => (httpCalls = 1 /\ curResp # NoResponse /\ fcResp = NoResponse)
    /\ Returned => httpCalls = (IF KeyAbsent THEN 0 ELSE 2)

\* a return after a rejected current request and a non-2xx forecast response
C22_Witness ==
    /\ Returned
    /\ curResp.kind = "throw"
    /\ Non2xx(fcResp)
    /\ httpCalls = 2

----------------------------------------------------------------------------
(* Properties of the records mapped by the two-call revision *)

\* the current record was mapped from the first interval of the response
CurrentMapped ==
    /\ HasIntervals(curResp)
    /\ curResp.intervals # <<>>
    /\ curResp.intervals[1].kind = "values"

\* interval k of the forecast response is the first one of its date, the date
\* is in the window, and the response is short enough for every interval to
\* be collected
FirstOfItsDay(k) ==
    /\ Len(fcResp.intervals) <= 7
    /\ Dated(k)
    /\ DayOfInterval(k) - Today \in 0..6
    /\ \A j \in 1..(k - 1) : Dated(j) => DayOfInterval(j) # DayOfInterval(k)

\* the forecast entry of the day interval k is dated
EntryOf(k) == result.forecast[DayOfInterval(k) - Today + 1]

\* the mapped records hold 0 for every absent upstream number, the pressure
\* holds byDefault when pressureSeaLevel is absent, and no field is undefined
Defaulting(byDefault) ==
    Returned =>
        /\ CurrentMapped =>
            LET cv == curResp.intervals[1].values
                c == result.current
            IN  /\ cv.temperature = Undefined => c.temperature = Num(0)
                /\ cv.humidity = Undefined => c.humidity = Num(0)
                /\ cv.windSpeed = Undefined => c.windSpeed = Num(0)
                /\ cv.weatherCode = Undefined => c.weatherCode = Num(0)
                /\ cv.precipitationProbability = Undefined =>
                        c.precipitationProbability = Num(0)
                /\ cv.uvIndex = Undefined => c.uvIndex = Num(0)
                /\ cv.pressureSeaLevel = Undefined => c.pressure = Num(byDefault)
                /\ \A f \in {"temperature", "humidity", "windSpeed", "weatherCode",
                             "precipitationProbability", "uvIndex", "pressure"} :
                        c[f] # Undefined
                /\ c.weatherDescription # ""
        /\ ForecastWellFormed =>
            \A k \in 1..Len(fcResp.intervals) : FirstOfItsDay(k) =>
                LET v == fcResp.intervals[k].values
                    e == EntryOf(k)
                IN  /\ v.temperatureMax = Undefined => e.tempMax = Num(0)
                    /\ v.temperatureMin = Undefined => e.tempMin = Num(0)
                    /\ v.precipitationProbability = Undefined =>
                            e.precipitationProbability = Num(0)
                    /\ (v.weatherCodeDay = Undefined /\ v.weatherCode = Undefined) =>
                            e.weatherCode = Num(0)
                    /\ \A f \in {"tempMax", "tempMin", "weatherCode",
                                 "precipitationProbability"} : e[f] # Undefined
                    /\ e.weatherDescription # ""

(* C23: in a record mapped from a fetched interval every numeric field whose
   upstream field is absent is 0, except the pressure, which is 1000 when
   pressureSeaLevel is absent, and no field of the record is undefined. *)
C23_AbsentFieldsDefault == Defaulting(1000)

\* C23 as stated: the pressure is 0 too when pressureSeaLevel is absent
C23_AbsentFieldsZero == Defaulting(0)

\* a current record mapped from an interval without any field, and a forecast
\* entry mapped from an interval without temperatureMin
C23_Witness ==
    /\ Returned
    /\ CurrentMapped
    /\ curResp.intervals[1].values = EmptyValues
    /\ result.current.pressure = Num(1000)
    /\ ForecastWellFormed
    /\ \E k \in 1..Len(fcResp.intervals) :
        /\ FirstOfItsDay(k)
        /\ fcResp.intervals[k].values.temperatureMin = Undefined
        /\ fcResp.intervals[k].values.temperatureMax # Undefined

----------------------------------------------------------------------------
\* the record holds the code 0 and the description of an absent code
AbsentCode(record) ==
    record.weatherCode = Num(0) /\ record.weatherDescription = "Weather data unavailable"

(* C24: in a current or daily record mapped from an upstream interval that
   carries a weather code, weatherDescription is the description the lookup
   table gives for the record's weatherCode (the entry, or "Code n"); when
   the upstream code fields are absent, weatherCode is 0 and the description
   is "Weather data unavailable". *)
C24_DescriptionOfCode ==
    Returned =>
        /\ IF CurrentSource.weatherCode # Undefined
           THEN Described(result.current.weatherCode[1], result.current.weatherDescription)
           ELSE AbsentCode(result.current)
        /\ IF DailyCode # Undefined
           THEN Described(result.forecast[1].weatherCode[1],
                          result.forecast[1].weatherDescription)
           ELSE AbsentCode(result.forecast[1])

\* C24 as stated: the description is that of the record's weatherCode, also
\* when the upstream code is absent and weatherCode is 0
C24_DescriptionAlwaysOfCode ==
    Returned =>
        /\ Described(result.current.weatherCode[1], result.current.weatherDescription)
        /\ Described(result.forecast[1].weatherCode[1],
                     result.forecast[1].weatherDescription)

\* a current record mapped from a sample without a weather code
C24_Witness ==
    /\ Returned
    /\ CurrentSource.weatherCode = Undefined
    /\ result.current.weatherCode = Num(0)
    /\ result.current.weatherDescription = "Weather data unavailable"
    /\ DailyCode # Undefined

\* the values of the daily summary the returned forecast was mapped from: the
\* two-call handler issued two requests, the combined-query handler one
DailyCodeSource ==
    IF httpCalls = 2 THEN fcResp.intervals[1].values ELSE response.intervals[1].values

(* C25: the weatherCode of a daily record is weatherCodeDay when the interval
   carries it (0 included), otherwise weatherCode when it carries that,
   otherwise 0, in the two-call and in the combined-query revision. *)
C25_DayCodePreferred ==
    Returned =>
        result.forecast[1].weatherCode =
            (IF DailyCodeSource.weatherCodeDay # Undefined THEN DailyCodeSource.weatherCodeDay
             ELSE IF DailyCodeSource.weatherCode # Undefined THEN DailyCodeSource.weatherCode
             ELSE Num(0))

\* the combined-query handler met a summary with the day code 0 and another
\* generic code
C25_Witness ==
    /\ Returned
    /\ httpCalls = 1
    /\ DailyCodeSource.weatherCodeDay = Num(0)
    /\ DailyCodeSource.weatherCode = Num(4001)
    /\ result.forecast[1].weatherCode = Num(0)
    /\ result.forecast[1].date = Today

----------------------------------------------------------------------------
\* every entry with mapped data is the mapped record of an interval of its
\* date that satisfies needed
MappedOnlyFrom(needed(_)) ==
    (Returned /\ ~KeyAbsent) =>
        \A i \in 0..6 : ~IsSentinelDay(result.forecast[i + 1], Today + i) =>
            \E k \in 1..Len(fcResp.intervals) : MappedFrom(i, k) /\ needed(k)

AnyValues(k) == fcResp.intervals[k].kind = "values"

WithBothExtremes(k) == HasBothExtremes(fcResp.intervals[k])

(* C26: a forecast entry carries mapped data only if an upstream interval of
   that date with a values map exists, and it is the mapped record of such an
   interval; whether the values hold temperatureMax and temperatureMin is not
   tested: the first interval of a date in the window is used as the daily
   record also when it lacks one of them. *)
C26_AnyIntervalWithValues ==
    /\ MappedOnlyFrom(AnyValues)
    /\ (Returned /\ ~KeyAbsent /\ ForecastWellFormed) =>
            \A k \in 1..Len(fcResp.intervals) :
                (FirstOfItsDay(k) /\ ~WithBothExtremes(k)) =>
                    /\ SameFields(EntryOf(k), MapDaily(fcResp.intervals[k]))
                    /\ ~IsSentinelDay(EntryOf(k), DayOfInterval(k))

\* C26 as stated: mapped data only from an interval with both extremes
C26_OnlyDailyIntervals == MappedOnlyFrom(WithBothExtremes)

\* the only interval of today's date lacks temperatureMin and today's entry is
\* its mapped record
C26_Witness ==
    /\ Returned
    /\ ~KeyAbsent
    /\ ForecastWellFormed
    /\ Len(fcResp.intervals) = 1
    /\ Dated(1)
    /\ DayOfInterval(1) = Today
    /\ fcResp.intervals[1].values.temperatureMax # Undefined
    /\ fcResp.intervals[1].values.temperatureMin = Undefined
    /\ result.forecast[1].tempMax = MathRound(fcResp.intervals[1].values.temperatureMax)
    /\ result.forecast[1].tempMin = Num(0)

----------------------------------------------------------------------------
\* interval k is the first of several intervals of its date, a date of the
\* window
FirstOfSeveral(k) ==
    /\ Dated(k)
    /\ DayOfInterval(k) - Today \in 0..6
    /\ \A j \in 1..(k - 1) : Dated(j) => DayOfInterval(j) # DayOfInterval(k)
    /\ \E j \in (k + 1)..Len(fcResp.intervals) :
            Dated(j) /\ DayOfInterval(j) = DayOfInterval(k)

(* C27: when several upstream intervals map to the same date today + i,
   forecast[i] is the mapped record of the one that comes first in the
   upstream order. *)
C27_FirstDuplicateWins ==
    (Returned /\ ~KeyAbsent /\ ForecastWellFormed) =>
        \A k \in 1..Len(fcResp.intervals) :
            FirstOfSeveral(k) => SameFields(EntryOf(k), MapDaily(fcResp.intervals[k]))

----------------------------------------------------------------------------
(* C28: in the current record the 5-day revision maps from the first interval
   of its response, every numeric field other than windSpeed is the nearest
   integer to the upstream value (the fallback default when it is absent). *)
C28_NearestIntegers ==
    (Returned /\ Len(response.intervals) > 0
              /\ response.intervals[1].values.temperature # Undefined) =>
        LET v == response.intervals[1].values
            c == result.current
        IN  /\ c.temperature = MathRound(v.temperature)
            /\ c.humidity = MathRound(Coalesce(v.humidity, Lit(0)))
            /\ c.precipitationProbability =
                    MathRound(Coalesce(v.precipitationProbability, Lit(0)))
            /\ c.uvIndex = MathRound(Coalesce(v.uvIndex, Lit(0)))
            /\ c.pressure = MathRound(Coalesce(v.pressureSeaLevel, Lit(FallbackPressure)))

----------------------------------------------------------------------------
(* C29: the dates of a returned forecast are consecutive and start at the
   calendar day current when the result is returned, also when the clock
   crosses midnight between two of the invocation's reads of it. *)
C29_ConsecutiveFromReturnDay ==
    Returned =>
        /\ Len(result.forecast) = ForecastDays
        /\ \A i \in 1..ForecastDays : result.forecast[i].date = Today + i - 1

----------------------------------------------------------------------------
\* the step is a refresh tick calling fetchWeatherForLocation
RefreshIssued ==
    /\ Len(inFlight') = Len(inFlight) + 1
    /\ inFlight'[Len(inFlight')].by = "refresh"

(* C30: each refresh tick requests the weather for the widget's current
   latitude and longitude, the coordinates of the most recent fetch. *)
C30_RefreshUsesCurrentLocation ==
    [][RefreshIssued =>
            /\ inFlight'[Len(inFlight')].lat = currentLatitude
            /\ inFlight'[Len(inFlight')].lon = currentLongitude]_vars

====
